---- MODULE Spec2Model ----
(***************************************************************************)
(* Model of filament/src/Engine.cpp: the engine facade's command pipeline  *)
(* (client thread -> CommandBufferQueue -> driver thread), the global      *)
(* registry of engines (sEngines / sEnginesLock), the per-kind resource    *)
(* lists with their create / destroy / cleanup protocol, and the shutdown  *)
(* sequence.                                                               *)
(*                                                                         *)
(* One engine instance, one client thread and (when UTILS_HAS_THREADING)   *)
(* one driver thread are modelled.  CommandBufferQueue, FFence and         *)
(* ResourceList are declared outside Engine.cpp; they are modelled from    *)
(* their documented contracts (see the comments at each operator).         *)
(***************************************************************************)
EXTENDS Integers, Sequences, FiniteSets, TLC

\* ---------------------------------------------------------------- bounds
\* number of heap objects the client may allocate (on top of the built-ins)
MaxObj == 2
\* number of flushes the client may issue before Engine::destroy
MaxFlush == 2
\* largest amount of command bytes one client call serialises
MaxCmdSize == 2
\* capacity of the circular buffer, in the same unit
CONFIG_COMMAND_BUFFERS_SIZE == 3

\* number of entities the client may create
MaxEntity == 2
\* number of operations applied to the ResourceList under test
MaxListOps == 4
\* descriptors waitForCommands() hands out in all, in the execute() scenario
MaxBatch == 3

NULL == 0

\* ------------------------------------------------------------ resource kinds
\* The ResourceList members of FEngine that hold one list per kind.
ListNames ==
    { "mRenderers", "mViews", "mScenes", "mSkyboxes", "mIndexBuffers",
      "mVertexBuffers", "mTextures", "mRenderTargets", "mMaterials", "mFences",
      "mIndirectLights", "mStreams", "mSwapChains" }

\* The kind of a material instance: its list lives in mMaterialInstances[material].
MI == "mMaterialInstances"

Kinds == ListNames \cup {MI}

\* The objects init() builds, in construction order, with the list each lands in.
Builtins ==
    << <<"mFullScreenTriangleVb", "mVertexBuffers">>,
       <<"mFullScreenTriangleIb", "mIndexBuffers">>,
       <<"mDefaultIblTexture", "mTextures">>,
       <<"mDefaultIbl", "mIndirectLights">>,
       <<"mDefaultMaterial", "mMaterials">> >>

BuiltinNames == { Builtins[i][1] : i \in 1..Len(Builtins) } \cup {"mSkyboxMaterial"}

BuiltinList(name) ==
    IF name = "mSkyboxMaterial" THEN "mMaterials"
    ELSE LET i == CHOOSE j \in 1..Len(Builtins) : Builtins[j][1] = name
         IN  Builtins[i][2]

MaxAddr == Len(Builtins) + MaxObj
Addr == 1..MaxAddr

VARIABLES
    threading,                 \* UTILS_HAS_THREADING of this build
    pc,                        \* where the client thread is
    handle,                    \* the client's Engine* ("nullptr" or "engine")
    filamentEngine,            \* the unique_ptr local of Engine::destroy
    sdStep,                    \* position of shutdown() in ShutdownPlan
    want,                      \* bytes the blocked producer is trying to write
    fence,                     \* the fence flushAndWait() created
    sEngines,                  \* the global registry
    sEnginesLock,              \* holder of the registry mutex ("free" or "client")
    mDriver,                   \* "null" or "driver"
    mDriverBarrier,            \* count of the CountDownLatch
    driverPc,                  \* where the driver thread (FEngine::loop) is
    buffers,                   \* execute(): the descriptors still to replay
    driverTerminated,          \* number of Driver::terminate() calls
    mCommandBuffersToExecute,  \* published descriptors, oldest first
    mExitRequested,
    mFreeSpace,                \* free bytes of the circular buffer
    pending,                   \* what the producer wrote since the last flush
    flushCount,                \* number of descriptors published so far
    executed,                  \* ids replayed by CommandStream::execute, in order
    signaled,                  \* fences whose marker command was replayed
    fawBefore,                 \* flushCount when the running flushAndWait() was called
    clientDriverCalls,         \* Driver methods the client thread called directly
    heap,                      \* mHeapAllocator: the object at each address
    lists,                     \* the ResourceLists, by member name
    mMaterialInstances,        \* material -> ResourceList of its instances
    builtin,                   \* the engine's own resources, by member name
    subsystems,                \* internal subsystems that were terminate()d
    jobSystemAdopted,          \* the client thread is registered with mJobSystem
    mTerminated,
    engineFreed,               \* ~FEngine ran
    aborted,                   \* the process was aborted (fatal assertion, crash)
    mEntityManager,            \* the entities that are alive
    components,                \* component manager -> entities it holds a component of
    gcPc,                      \* where the thread that called gc() is
    gcJobs,                    \* component manager -> its child job of the running gc()
    rlItems,                   \* a ResourceList under test: its elements
    rlModel,                   \* the mathematical set its operations imply
    rlRet,                     \* what the last operation on it returned
    rlOps,                     \* number of operations applied to it
    callers,                   \* thread -> its call of Engine::destroy
    shutdowns,                 \* number of times shutdown() was run
    released,                  \* ids handed to releaseBuffer, in order
    returned                   \* descriptors handed out by DriverWaitAny, in order

clientVars == <<pc, handle, filamentEngine, sdStep, want, fence>>
regVars    == <<sEngines, sEnginesLock>>
driverVars == <<mDriver, mDriverBarrier, driverPc, buffers, driverTerminated>>
queueVars  == <<mCommandBuffersToExecute, mExitRequested, mFreeSpace, pending, flushCount>>
histVars   == <<executed, signaled, fawBefore, clientDriverCalls>>
resVars    == <<heap, lists, mMaterialInstances, builtin>>
engVars    == <<threading, subsystems, jobSystemAdopted, mTerminated, engineFreed, aborted>>
gcVars     == <<mEntityManager, components, gcPc, gcJobs>>
rlVars     == <<rlItems, rlModel, rlRet, rlOps>>
mtVars     == <<callers, shutdowns>>
exVars     == <<released, returned>>

vars == <<clientVars, regVars, driverVars, queueVars, histVars, resVars, engVars,
         gcVars, rlVars, mtVars, exVars>>

\* The component managers of the engine.
Managers == {"mRenderableManager", "mLightManager", "mTransformManager", "mCameraManager"}
Entities == 1..MaxEntity

\* a child job of gc(): not created, submitted, or completed; and how many
\* sweeps of its manager have run since gc() was called
NoJob == [state |-> "none", swept |-> 0]

\* log: what happened to the object, oldest first, as <<event, listed>>, listed
\* telling whether its address was in a ResourceList at that moment
NoObject == [kind |-> "none", material |-> NULL, terminated |-> 0, freed |-> 0, log |-> <<>>]
\* The threads that call Engine::destroy concurrently.
Threads == {"t1", "t2", "t3"}

\* how: "by_pointer" is destroy(Engine**), "by_value" destroy(Engine*),
\* "null_arg" destroy((Engine**) nullptr); handle: the caller's own Engine*;
\* engine: the Engine* the parameter points at; ran: shutdown() was run
NoCall == [pc |-> "out", how |-> "none", handle |-> "nullptr", engine |-> "nullptr",
           filamentEngine |-> "nullptr", ran |-> FALSE]

NoPending == [bytes |-> 0, fences |-> {}, cmds |-> FALSE]

\* State after static initialisation, before Engine::create is called.
Init ==
    /\ threading \in BOOLEAN
    /\ pc = "start"
    /\ handle = "nullptr"
    /\ filamentEngine = "nullptr"
    /\ sdStep = 0
    /\ want = 0
    /\ fence = NULL
    /\ sEngines = {}
    /\ sEnginesLock = "free"
    /\ mDriver = "null"
    /\ mDriverBarrier = 1
    /\ driverPc = "not_started"
    /\ buffers = <<>>
    /\ driverTerminated = 0
    /\ mCommandBuffersToExecute = <<>>
    /\ mExitRequested = FALSE
    /\ mFreeSpace = CONFIG_COMMAND_BUFFERS_SIZE
    /\ pending = NoPending
    /\ flushCount = 0
    /\ executed = <<>>
    /\ signaled = {}
    /\ fawBefore = 0
    /\ clientDriverCalls = {}
    /\ heap = [a \in Addr |-> NoObject]
    /\ lists = [l \in ListNames |-> {}]
    /\ mMaterialInstances = << >>
    /\ builtin = [n \in BuiltinNames |-> NULL]
    /\ subsystems = {}
    /\ jobSystemAdopted = FALSE
    /\ mTerminated = FALSE
    /\ engineFreed = FALSE
    /\ aborted = FALSE
    /\ mEntityManager = {}
    /\ components = [m \in Managers |-> {}]
    /\ gcPc = "idle"
    /\ gcJobs = [m \in Managers |-> NoJob]
    /\ rlItems = <<>>
    /\ rlModel = {}
    /\ rlRet = [op |-> "none", value |-> "void", expect |-> "void"]
    /\ rlOps = 0
    /\ callers = [t \in Threads |-> NoCall]
    /\ shutdowns = 0
    /\ released = <<>>
    /\ returned = <<>>

At(p) == ~aborted /\ pc = p

\* A fatal assertion or a crash: the process stops.
Abort ==
    /\ aborted' = TRUE
    /\ UNCHANGED <<clientVars, regVars, driverVars, queueVars, histVars, resVars, gcVars, rlVars, mtVars, exVars>>
    /\ UNCHANGED <<threading, subsystems, jobSystemAdopted, mTerminated, engineFreed>>


\* ------------------------------------------------------- CommandBufferQueue
\* The queue is declared outside Engine.cpp; these operators follow its
\* documented contract.

\* The descriptor flush() publishes for what the producer wrote so far.
Descriptor ==
    [id |-> flushCount + 1, size |-> pending.bytes,
     fences |-> pending.fences, cmds |-> pending.cmds, begin |-> 1]

\* flush(): publish everything written up to now as one new descriptor.
QueueFlush ==
    /\ mCommandBuffersToExecute' = Append(mCommandBuffersToExecute, Descriptor)
    /\ pending' = NoPending
    /\ flushCount' = flushCount + 1

\* waitForCommands() can return: a descriptor is available or exit was requested.
\* Without threading there is nobody to wait for and it returns at once.
CanReturnCommands ==
    \/ ~threading
    \/ mCommandBuffersToExecute # <<>>
    \/ mExitRequested

\* releaseBuffer(item): hand the bytes of a consumed descriptor back.
ReleasedSpace(free, item) == free + item.size

\* a Driver method called directly by the thread that runs the client's call
DriverCall(method) == clientDriverCalls' = clientDriverCalls \cup {method}

\* FEngine::flushCommandBuffer(commandQueue): getDriver().purge(); commandQueue.flush();
flushCommandBuffer ==
    /\ DriverCall("purge")
    /\ QueueFlush

\* ------------------------------------------------------------ FEngine::execute
\* if (item.begin)
HasBegin(item) == item.begin # NULL

\* the descriptors of bufs the loop body acts on
WithBegin(bufs) == SelectSeq(bufs, HasBegin)

\* mutant: the loop walks the descriptors from the back
NextItem_Last(bufs) == bufs[Len(bufs)]

\* for (auto& item : buffers): the descriptor the loop visits next.
NextItem(bufs) == Head(bufs)

RECURSIVE ExecOrder(_)
\* The descriptors of one waitForCommands() result in the order execute() visits them.
ExecOrder(bufs) ==
    IF bufs = <<>> THEN <<>>
    ELSE <<NextItem(bufs)>> \o ExecOrder(Tail(bufs))

RECURSIVE FencesOf(_)
FencesOf(bufs) ==
    IF bufs = <<>> THEN {} ELSE Head(bufs).fences \cup FencesOf(Tail(bufs))

RECURSIVE SizeOf(_)
SizeOf(bufs) ==
    IF bufs = <<>> THEN 0 ELSE Head(bufs).size + SizeOf(Tail(bufs))

\* mutant: only the first published descriptor is taken and replayed
InlineExecute_OnlyFirst ==
    LET order == IF mCommandBuffersToExecute = <<>> THEN <<>>
                 ELSE WithBegin(<<Head(mCommandBuffersToExecute)>>)
    IN  /\ executed' = executed \o [i \in 1..Len(order) |-> order[i].id]
        /\ released' = released \o [i \in 1..Len(order) |-> order[i].id]
        /\ signaled' = signaled \cup FencesOf(order)
        /\ mFreeSpace' = mFreeSpace + SizeOf(order)
        /\ mCommandBuffersToExecute' =
              IF mCommandBuffersToExecute = <<>> THEN <<>> ELSE Tail(mCommandBuffersToExecute)

\* FEngine::execute() run to completion on the calling thread (no threading):
\* take every published descriptor, replay and release each that has a begin.
InlineExecute ==
    LET order == WithBegin(ExecOrder(mCommandBuffersToExecute))
    IN  /\ executed' = executed \o [i \in 1..Len(order) |-> order[i].id]
        /\ released' = released \o [i \in 1..Len(order) |-> order[i].id]
        /\ signaled' = signaled \cup FencesOf(order)
        /\ mFreeSpace' = mFreeSpace + SizeOf(order)
        /\ mCommandBuffersToExecute' = <<>>

\* ------------------------------------------------------------- FEngine::loop
\* mDriver = platform->createDriver(mSharedGLContext): it may fail.
DriverCreate ==
    /\ ~aborted /\ driverPc = "create"
    /\ \E d \in {"driver", "null"} : mDriver' = d
    /\ driverPc' = "latch"
    /\ UNCHANGED <<mDriverBarrier, buffers, driverTerminated>>
    /\ UNCHANGED <<clientVars, regVars, queueVars, histVars, resVars, engVars, gcVars, rlVars, mtVars, exVars>>

\* mutant: the thread enters its loop whether or not a driver was created
DriverLatch_EnterLoop ==
    /\ ~aborted /\ driverPc = "latch"
    /\ mDriverBarrier' = 0
    /\ driverPc' = "wait"
    /\ UNCHANGED <<mDriver, buffers, driverTerminated>>
    /\ UNCHANGED <<clientVars, regVars, queueVars, histVars, resVars, engVars, gcVars, rlVars, mtVars, exVars>>

\* mDriverBarrier.latch(), then return 0 when there is no driver.
DriverLatch ==
    /\ ~aborted /\ driverPc = "latch"
    /\ mDriverBarrier' = 0
    /\ driverPc' = IF mDriver = "null" THEN "done" ELSE "wait"
    /\ UNCHANGED <<mDriver, buffers, driverTerminated>>
    /\ UNCHANGED <<clientVars, regVars, queueVars, histVars, resVars, engVars, gcVars, rlVars, mtVars, exVars>>

\* execute(): waitForCommands(); an empty result ends the loop.
DriverWait ==
    /\ ~aborted /\ driverPc = "wait"
    /\ CanReturnCommands
    /\ buffers' = mCommandBuffersToExecute
    /\ mCommandBuffersToExecute' = <<>>
    /\ driverPc' = IF mCommandBuffersToExecute = <<>> THEN "terminate" ELSE "exec"
    /\ UNCHANGED <<mDriver, mDriverBarrier, driverTerminated>>
    /\ UNCHANGED <<mExitRequested, mFreeSpace, pending, flushCount>>
    /\ UNCHANGED <<clientVars, regVars, histVars, resVars, engVars, gcVars, rlVars, mtVars, exVars>>

\* mutant: the descriptor is replayed whether or not it has a begin
DriverExec_IgnoreBegin ==
    /\ ~aborted /\ driverPc = "exec"
    /\ LET item == NextItem(buffers)
       IN  /\ executed' = Append(executed, item.id)
           /\ signaled' = signaled \cup item.fences
    /\ driverPc' = "release"
    /\ UNCHANGED <<mDriver, mDriverBarrier, buffers, driverTerminated, fawBefore, clientDriverCalls>>
    /\ UNCHANGED <<clientVars, regVars, queueVars, resVars, engVars, gcVars, rlVars, mtVars, exVars>>

\* if (item.begin) mCommandStream.execute(item.begin); without a begin the
\* loop moves on to the next item, or the step ends
DriverExec ==
    /\ ~aborted /\ driverPc = "exec"
    /\ LET item == NextItem(buffers)
       IN  IF HasBegin(item)
           THEN /\ executed' = Append(executed, item.id)
                /\ signaled' = signaled \cup item.fences
                /\ driverPc' = "release"
                /\ buffers' = buffers
           ELSE /\ UNCHANGED <<executed, signaled>>
                /\ buffers' = Tail(buffers)
                /\ driverPc' = IF Tail(buffers) = <<>> THEN "wait" ELSE "exec"
    /\ UNCHANGED <<mDriver, mDriverBarrier, driverTerminated, fawBefore, clientDriverCalls>>
    /\ UNCHANGED <<clientVars, regVars, queueVars, resVars, engVars, gcVars, rlVars, mtVars, exVars>>

\* mCommandBufferQueue.releaseBuffer(item), then the next item or the next wait
DriverRelease ==
    /\ ~aborted /\ driverPc = "release"
    /\ mFreeSpace' = ReleasedSpace(mFreeSpace, NextItem(buffers))
    /\ released' = Append(released, NextItem(buffers).id)
    /\ buffers' = Tail(buffers)
    /\ driverPc' = IF Tail(buffers) = <<>> THEN "wait" ELSE "exec"
    /\ UNCHANGED <<mDriver, mDriverBarrier, driverTerminated>>
    /\ UNCHANGED <<mCommandBuffersToExecute, mExitRequested, pending, flushCount>>
    /\ UNCHANGED <<clientVars, regVars, histVars, resVars, engVars, gcVars, rlVars, mtVars, returned>>

\* getDriverApi().terminate(); return 0
DriverTerminate ==
    /\ ~aborted /\ driverPc = "terminate"
    /\ driverTerminated' = driverTerminated + 1
    /\ driverPc' = "done"
    /\ UNCHANGED <<mDriver, mDriverBarrier, buffers>>
    /\ UNCHANGED <<clientVars, regVars, queueVars, histVars, resVars, engVars, gcVars, rlVars, mtVars, exVars>>


\* --------------------------------------------------------- resource protocol
\* The operators below work on a record r of the client-side resource state:
\*   lists : the ResourceLists,  mi : mMaterialInstances,  heap : the allocator,
\*   cmds  : whether a terminate() call has written driver commands.
\* A list is named by a reference: <<"list", member>> or <<"mi", material>>.

Cur == [lists |-> lists, mi |-> mMaterialInstances, heap |-> heap, cmds |-> pending.cmds]

ListRef(l) == <<"list", l>>
InstRef(m) == <<"mi", m>>

GetList(r, ref) == IF ref[1] = "list" THEN r.lists[ref[2]] ELSE r.mi[ref[2]]

SetList(r, ref, s) ==
    IF ref[1] = "list" THEN [r EXCEPT !.lists[ref[2]] = s]
    ELSE [r EXCEPT !.mi[ref[2]] = s]

\* counts saturate: two or more is "more than once"
Bump(n) == IF n < 2 THEN n + 1 ELSE n

\* whether address a is in some ResourceList
Registered(r, a) ==
    \/ \E l \in ListNames : a \in r.lists[l]
    \/ \E m \in DOMAIN r.mi : a \in r.mi[m]

\* the log of an object, extended by one event (the first four are kept)
Logged(log, event, listed) ==
    IF Len(log) < 4 THEN Append(log, <<event, listed>>) ELSE log

\* item->terminate(*this), which may write driver commands
Terminate(r, items) ==
    [r EXCEPT
        !.heap = [a \in Addr |->
                    IF a \in items
                    THEN [r.heap[a] EXCEPT
                            !.terminated = Bump(@),
                            !.log = Logged(@, "terminate", Registered(r, a))]
                    ELSE r.heap[a]],
        !.cmds = r.cmds \/ items # {}]

\* mHeapAllocator.destroy(item)
Free(r, items) ==
    [r EXCEPT
        !.heap = [a \in Addr |->
                    IF a \in items
                    THEN [r.heap[a] EXCEPT
                            !.freed = Bump(@),
                            !.log = Logged(@, "free", Registered(r, a))]
                    ELSE r.heap[a]]]

\* item->terminate(*this); mHeapAllocator.destroy(item)  for every item of items
TerminateAndFree(r, items) == Free(Terminate(r, items), items)

\* ResourceList::remove(ptr): whether ptr was present
ListRemoves(r, ref, ptr) == ptr \in GetList(r, ref)

\* mutant: the object is terminated and freed before it is taken off the list
terminateAndDestroy_RemoveLast(r, ptr, ref) ==
    IF ptr # NULL
    THEN IF ListRemoves(r, ref, ptr)
         THEN SetList(TerminateAndFree(r, {ptr}), ref, GetList(r, ref) \ {ptr})
         ELSE r
    ELSE r

\* FEngine::terminateAndDestroy(ptr, list)
terminateAndDestroy(r, ptr, ref) ==
    IF ptr # NULL
    THEN IF ListRemoves(r, ref, ptr)
         THEN TerminateAndFree(SetList(r, ref, GetList(r, ref) \ {ptr}), {ptr})
         ELSE r
    ELSE r

\* FEngine::cleanupResourceList(list)
cleanupResourceList(r, ref) ==
    IF GetList(r, ref) # {}
    THEN TerminateAndFree(SetList(r, ref, {}), GetList(r, ref))
    ELSE r

RECURSIVE CleanupEach(_, _)
\* for (auto& item : mMaterialInstances) cleanupResourceList(item.second)
CleanupEach(r, keys) ==
    IF keys = {} THEN r
    ELSE LET k == CHOOSE x \in keys : TRUE
         IN  CleanupEach(cleanupResourceList(r, InstRef(k)), keys \ {k})

\* mutant: the instances of the material are not looked at
NoLiveInstances_Ignored(r, ptr) == TRUE

\* the condition of ASSERT_PRECONDITION_NON_FATAL in destroy(const FMaterial*):
\* the material has no entry in mMaterialInstances or its list is empty
NoLiveInstances(r, ptr) ==
    ptr \in DOMAIN r.mi => r.mi[ptr] = {}

\* FEngine::destroy(const FMaterial* ptr)
destroyMaterial(r, ptr) ==
    IF ptr # NULL
    THEN IF NoLiveInstances(r, ptr)
         THEN terminateAndDestroy(r, ptr, ListRef("mMaterials"))
         ELSE r
    ELSE r

\* FEngine::destroy(const FMaterialInstance* ptr), m being ptr->getMaterial()
destroyMaterialInstance(r, ptr, m) ==
    IF ptr # NULL /\ m \in DOMAIN r.mi
    THEN terminateAndDestroy(r, ptr, InstRef(m))
    ELSE r

\* FEngine::destroy(const T*) for the kinds that go straight to terminateAndDestroy
destroyPlain(r, ptr, l) == terminateAndDestroy(r, ptr, ListRef(l))

\* mHeapAllocator.make<T>(): the address of the new object
IsFree(h, a) == h[a].kind = "none"
HasFree(h) == \E a \in Addr : IsFree(h, a)
NewAddr(h) == CHOOSE a \in Addr : IsFree(h, a) /\ \A b \in Addr : IsFree(h, b) => a <= b

NewObject(kind, material) ==
    [kind |-> kind, material |-> material, terminated |-> 0, freed |-> 0, log |-> <<>>]

\* mutant: the new object is also put into the list of fences
create_AlsoFences(r, l) ==
    LET p == NewAddr(r.heap)
    IN  [r EXCEPT !.heap[p] = NewObject(l, NULL),
                  !.lists = [k \in ListNames |->
                               IF k \in {l, "mFences"} THEN r.lists[k] \cup {p} ELSE r.lists[k]]]

\* FEngine::create(list, builder) and the create* functions that insert into a list
create(r, l) ==
    LET p == NewAddr(r.heap)
    IN  [r EXCEPT !.heap[p] = NewObject(l, NULL), !.lists[l] = @ \cup {p}]

\* FEngine::createMaterialInstance(material)
createMaterialInstance(r, material) ==
    LET p == NewAddr(r.heap)
        old == IF material \in DOMAIN r.mi THEN r.mi[material] ELSE {}
    IN  [r EXCEPT
            !.heap[p] = NewObject(MI, material),
            !.mi = [m \in DOMAIN r.mi \cup {material} |->
                       IF m = material THEN old \cup {p} ELSE r.mi[m]]]

Live(h, a) == h[a].kind # "none" /\ h[a].freed = 0

Commit(r) ==
    /\ lists' = r.lists
    /\ mMaterialInstances' = r.mi
    /\ heap' = r.heap


NoExecute == UNCHANGED <<executed, signaled, mFreeSpace, mCommandBuffersToExecute, released>>

\* if (!UTILS_HAS_THREADING) execute();
MaybeInlineExecute == IF threading THEN NoExecute ELSE InlineExecute

\* ------------------------------------------------------------ FEngine::create
\* new FEngine(...) (the constructor adopts the calling thread into the job
\* system); then either the driver is created here and now, or the driver
\* thread is started.
FEngine_create ==
    /\ At("start")
    /\ jobSystemAdopted' = TRUE
    /\ IF threading
       THEN /\ driverPc' = "create"
            /\ mDriver' = mDriver
            /\ pc' = "c_await"
       ELSE /\ \E d \in {"driver", "null"} : mDriver' = d
            /\ driverPc' = driverPc
            /\ pc' = "c_register"
    /\ UNCHANGED <<handle, filamentEngine, sdStep, want, fence>>
    /\ UNCHANGED <<mDriverBarrier, buffers, driverTerminated>>
    /\ UNCHANGED <<regVars, queueVars, histVars, resVars, gcVars, rlVars, mtVars, exVars>>
    /\ UNCHANGED <<threading, subsystems, mTerminated, engineFreed, aborted>>

\* instance->mDriverBarrier.await(); if (!instance->mDriver) ...
CreateAwait ==
    /\ At("c_await")
    /\ mDriverBarrier = 0
    /\ pc' = IF mDriver = "null" THEN "c_join" ELSE "c_register"
    /\ UNCHANGED <<handle, filamentEngine, sdStep, want, fence>>
    /\ UNCHANGED <<regVars, driverVars, queueVars, histVars, resVars, engVars, gcVars, rlVars, mtVars, exVars>>

\* instance->mDriverThread.join(); return nullptr;
CreateJoinFailed ==
    /\ At("c_join")
    /\ driverPc = "done"
    /\ pc' = "failed"
    /\ UNCHANGED <<handle, filamentEngine, sdStep, want, fence>>
    /\ UNCHANGED <<regVars, driverVars, queueVars, histVars, resVars, engVars, gcVars, rlVars, mtVars, exVars>>

\* { lock_guard guard(sEnginesLock); sEngines[handle] = std::move(engine); }
CreateRegister ==
    /\ At("c_register")
    /\ sEnginesLock = "free"
    /\ sEngines' = sEngines \cup {"engine"}
    /\ pc' = "c_init"
    /\ UNCHANGED <<handle, filamentEngine, sdStep, want, fence, sEnginesLock>>
    /\ UNCHANGED <<driverVars, queueVars, histVars, resVars, engVars, gcVars, rlVars, mtVars, exVars>>

\* mHeapAllocator.make<T>(): the address the i-th allocation from now gets
NthFree(h, i) ==
    CHOOSE a \in Addr :
        IsFree(h, a) /\ Cardinality({ x \in Addr : IsFree(h, x) /\ x < a }) = i - 1

\* init(): the built-in resources are built one after the other, each through
\* its Builder, which registers it in the list of its kind like a client's.
InitBuiltins(r, b) ==
    LET n == Len(Builtins)
        at == [i \in 1..n |-> NthFree(r.heap, i)]
    IN  [r |-> [r EXCEPT
                  !.heap = [a \in Addr |->
                              IF \E i \in 1..n : at[i] = a
                              THEN NewObject(Builtins[CHOOSE i \in 1..n : at[i] = a][2], NULL)
                              ELSE r.heap[a]],
                  !.lists = [l \in ListNames |->
                               r.lists[l] \cup { at[i] : i \in { j \in 1..n : Builtins[j][2] = l } }]],
         b |-> [x \in BuiltinNames |->
                  IF \E i \in 1..n : Builtins[i][1] = x
                  THEN at[CHOOSE i \in 1..n : Builtins[i][1] = x]
                  ELSE b[x]]]

\* instance->init(); if (!UTILS_HAS_THREADING) instance->execute(); return instance;
\* init() starts with CommandStream(*mDriver, ...): with a null mDriver that is
\* undefined behaviour, which either crashes or goes unnoticed.
CreateInit ==
    /\ At("c_init")
    /\ \E crash \in (IF mDriver = "null" THEN BOOLEAN ELSE {FALSE}) :
         IF crash
         THEN Abort
         ELSE LET st == InitBuiltins(Cur, builtin)
              IN  /\ Commit(st.r)
                  /\ builtin' = st.b
                  /\ pending' = [pending EXCEPT !.cmds = TRUE]
                  /\ MaybeInlineExecute
                  /\ pc' = "idle"
                  /\ handle' = "engine"
                  /\ UNCHANGED <<filamentEngine, sdStep, want, fence>>
                  /\ UNCHANGED <<mExitRequested, flushCount, fawBefore, clientDriverCalls>>
                  /\ UNCHANGED <<regVars, driverVars, engVars, gcVars, rlVars, mtVars, returned>>

\* FEngine::assertValid(engine)
assertValid ==
    /\ ~aborted /\ pc \in {"idle", "destroyed"}
    /\ handle = "engine"
    /\ sEnginesLock = "free"
    /\ IF "engine" \in sEngines THEN UNCHANGED vars ELSE Abort


\* ------------------------------------------------- client calls: resources
\* The objects the client holds a pointer to (live or already destroyed).
ClientObjects ==
    { a \in Addr : heap[a].kind # "none" /\ \A n \in BuiltinNames : builtin[n] # a }

\* the write-back of a resource operation that may have run terminate()
CommitResources(r) ==
    /\ Commit(r)
    /\ pending' = [pending EXCEPT !.cmds = r.cmds]

\* Engine::createRenderer / createView / createScene / createFence /
\* createSwapChain and the builder-driven create* functions.  A fence writes
\* its marker command into the command stream.
Create(l) ==
    /\ At("idle") /\ handle = "engine"
    /\ HasFree(heap)
    /\ Commit(create(Cur, l))
    /\ pending' = [pending EXCEPT
                     !.fences = IF l = "mFences" THEN @ \cup {NewAddr(heap)} ELSE @]
    /\ UNCHANGED <<mCommandBuffersToExecute, mExitRequested, mFreeSpace, flushCount>>
    /\ UNCHANGED <<clientVars, regVars, driverVars, histVars, builtin, engVars, gcVars, rlVars, mtVars, exVars>>

\* The lists behind Engine::createRenderer(), createView() and createScene()
EntryPointLists == {"mRenderers", "mViews", "mScenes"}

\* Engine::createRenderer / createView / createScene called through a stale
\* Engine* after Engine::destroy deleted the FEngine: a use after free, which
\* either crashes or writes into the freed engine.
UseAfterDestroy(l) ==
    /\ At("destroyed") /\ handle = "engine"
    /\ HasFree(heap)
    /\ \E crash \in BOOLEAN :
         IF crash
         THEN Abort
         ELSE /\ Commit(create(Cur, l))
              /\ UNCHANGED <<clientVars, regVars, driverVars, queueVars, histVars, gcVars, rlVars, mtVars, exVars>>
              /\ UNCHANGED <<builtin, engVars>>

\* Engine-side of Material::createInstance()
CreateMaterialInstance(m) ==
    /\ At("idle") /\ handle = "engine"
    /\ HasFree(heap)
    /\ Live(heap, m) /\ heap[m].kind = "mMaterials"
    /\ Commit(createMaterialInstance(Cur, m))
    /\ UNCHANGED <<clientVars, regVars, driverVars, queueVars, histVars, builtin, engVars, gcVars, rlVars, mtVars, exVars>>

\* FEngine::getSkyboxMaterial(): created on first use
getSkyboxMaterial ==
    /\ At("idle") /\ handle = "engine"
    /\ HasFree(heap)
    /\ IF builtin["mSkyboxMaterial"] = NULL
       THEN /\ Commit(create(Cur, "mMaterials"))
            /\ builtin' = [builtin EXCEPT !["mSkyboxMaterial"] = NewAddr(heap)]
       ELSE UNCHANGED resVars
    /\ UNCHANGED <<clientVars, regVars, driverVars, queueVars, histVars, engVars, gcVars, rlVars, mtVars, exVars>>

\* Engine::destroy(const T* p) for the kinds without dependents
DestroyPlain(p) ==
    /\ At("idle") /\ handle = "engine"
    /\ p \in ClientObjects
    /\ heap[p].kind \notin {"mMaterials", MI}
    /\ CommitResources(destroyPlain(Cur, p, heap[p].kind))
    /\ UNCHANGED <<mCommandBuffersToExecute, mExitRequested, mFreeSpace, flushCount>>
    /\ UNCHANGED <<clientVars, regVars, driverVars, histVars, builtin, engVars, gcVars, rlVars, mtVars, exVars>>

\* Engine::destroy(const Material* p)
DestroyMaterial(p) ==
    /\ At("idle") /\ handle = "engine"
    /\ p \in ClientObjects
    /\ heap[p].kind = "mMaterials"
    /\ CommitResources(destroyMaterial(Cur, p))
    /\ UNCHANGED <<mCommandBuffersToExecute, mExitRequested, mFreeSpace, flushCount>>
    /\ UNCHANGED <<clientVars, regVars, driverVars, histVars, builtin, engVars, gcVars, rlVars, mtVars, exVars>>

\* What ptr->getMaterial() can yield: the owning material while the instance
\* is alive; anything once it has been freed (a read of freed memory).
GetMaterialResults(p) ==
    IF heap[p].freed = 0 THEN {heap[p].material} ELSE Addr \cup {NULL}

\* Engine::destroy(const MaterialInstance* p).  When the material has no entry
\* in mMaterialInstances, assert() aborts a debug build and a release build
\* does nothing.
DestroyMaterialInstance(p) ==
    /\ At("idle") /\ handle = "engine"
    /\ p \in ClientObjects
    /\ heap[p].kind = MI
    /\ \E m \in GetMaterialResults(p) :
       \E ndebug \in (IF m \in DOMAIN mMaterialInstances THEN {TRUE} ELSE BOOLEAN) :
         IF ndebug
         THEN /\ CommitResources(destroyMaterialInstance(Cur, p, m))
              /\ UNCHANGED <<mCommandBuffersToExecute, mExitRequested, mFreeSpace, flushCount>>
              /\ UNCHANGED <<clientVars, regVars, driverVars, histVars, builtin, engVars, gcVars, rlVars, mtVars, exVars>>
         ELSE Abort

\* Engine::destroy(p) with p == nullptr, for any kind
DestroyNull(l) ==
    /\ At("idle") /\ handle = "engine"
    /\ CommitResources(
          IF l = "mMaterials" THEN destroyMaterial(Cur, NULL)
          ELSE IF l = MI THEN destroyMaterialInstance(Cur, NULL, NULL)
          ELSE destroyPlain(Cur, NULL, l))
    /\ UNCHANGED <<mCommandBuffersToExecute, mExitRequested, mFreeSpace, flushCount>>
    /\ UNCHANGED <<clientVars, regVars, driverVars, histVars, builtin, engVars, gcVars, rlVars, mtVars, exVars>>


\* ------------------------------------------------------------ Engine::destroy
\* Engine::destroy(Engine* engine) { destroy(&engine); } and
\* Engine::destroy(Engine** engine): if (engine) { ...
Engine_destroy ==
    /\ ~aborted /\ pc \in {"idle", "destroyed"}
    /\ pc' = "d_lock"
    /\ UNCHANGED <<handle, filamentEngine, sdStep, want, fence>>
    /\ UNCHANGED <<regVars, driverVars, queueVars, histVars, resVars, engVars, gcVars, rlVars, mtVars, exVars>>

\* unique_lock guard(sEnginesLock); find; swap the owner out; erase
DestroyLock ==
    /\ At("d_lock")
    /\ sEnginesLock = "free"
    /\ sEnginesLock' = "client"
    /\ IF handle \in sEngines
       THEN /\ filamentEngine' = handle
            /\ sEngines' = sEngines \ {handle}
       ELSE UNCHANGED <<filamentEngine, sEngines>>
    /\ pc' = "d_unlock"
    /\ UNCHANGED <<handle, sdStep, want, fence>>
    /\ UNCHANGED <<driverVars, queueVars, histVars, resVars, engVars, gcVars, rlVars, mtVars, exVars>>

\* mutant: shutdown() is entered with the registry lock still held
DestroyUnlock_KeepLock ==
    /\ At("d_unlock")
    /\ sEnginesLock' = sEnginesLock
    /\ IF filamentEngine # "nullptr"
       THEN pc' = "shutdown" /\ sdStep' = 1
       ELSE pc' = "destroyed" /\ sdStep' = sdStep
    /\ UNCHANGED <<handle, filamentEngine, want, fence, sEngines>>
    /\ UNCHANGED <<driverVars, queueVars, histVars, resVars, engVars, gcVars, rlVars, mtVars, exVars>>

\* guard.unlock(); if (filamentEngine) { filamentEngine->shutdown(); ...
DestroyUnlock ==
    /\ At("d_unlock")
    /\ sEnginesLock' = "free"
    /\ IF filamentEngine # "nullptr"
       THEN pc' = "shutdown" /\ sdStep' = 1
       ELSE pc' = "destroyed" /\ sdStep' = sdStep
    /\ UNCHANGED <<handle, filamentEngine, want, fence, sEngines>>
    /\ UNCHANGED <<driverVars, queueVars, histVars, resVars, engVars, gcVars, rlVars, mtVars, exVars>>

\* ------------------------------------------------------------ FEngine::shutdown
\* mutant: requestExit() is called before the last flush
ShutdownPlan_ExitBeforeFlush ==
    << <<"terminate", "mPostProcessManager">>,
       <<"terminate", "mResourceAllocator">>,
       <<"terminate", "mDFG">>,
       <<"terminate", "mRenderableManager">>,
       <<"terminate", "mLightManager">>,
       <<"terminate", "mCameraManager">>,
       <<"terminate", "mFullScreenTriangleRph">>,
       <<"destroy", "mFullScreenTriangleIb">>,
       <<"destroy", "mFullScreenTriangleVb">>,
       <<"destroy", "mDefaultIblTexture">>,
       <<"destroy", "mDefaultIbl">>,
       <<"destroy", "mDefaultMaterial">>,
       <<"cleanup", "mRenderers">>,
       <<"cleanup", "mViews">>,
       <<"cleanup", "mScenes">>,
       <<"cleanup", "mSkyboxes">>,
       <<"destroy", "mSkyboxMaterial">>,
       <<"cleanup", "mIndexBuffers">>,
       <<"cleanup", "mVertexBuffers">>,
       <<"cleanup", "mTextures">>,
       <<"cleanup", "mRenderTargets">>,
       <<"cleanup", "mMaterials">>,
       <<"cleanupInstances", "mMaterialInstances">>,
       <<"cleanup", "mFences">>,
       <<"requestExit", "mCommandBufferQueue">>,
       <<"flush", "mCommandBufferQueue">>,
       <<"execute", "mCommandBufferQueue">>,
       <<"join", "mDriverThread">>,
       <<"emancipate", "mJobSystem">>,
       <<"setTerminated", "mTerminated">> >>

\* mutant: the driver thread is joined before it is asked to exit
ShutdownPlan_JoinBeforeExit ==
    << <<"terminate", "mPostProcessManager">>,
       <<"terminate", "mResourceAllocator">>,
       <<"terminate", "mDFG">>,
       <<"terminate", "mRenderableManager">>,
       <<"terminate", "mLightManager">>,
       <<"terminate", "mCameraManager">>,
       <<"terminate", "mFullScreenTriangleRph">>,
       <<"destroy", "mFullScreenTriangleIb">>,
       <<"destroy", "mFullScreenTriangleVb">>,
       <<"destroy", "mDefaultIblTexture">>,
       <<"destroy", "mDefaultIbl">>,
       <<"destroy", "mDefaultMaterial">>,
       <<"cleanup", "mRenderers">>,
       <<"cleanup", "mViews">>,
       <<"cleanup", "mScenes">>,
       <<"cleanup", "mSkyboxes">>,
       <<"destroy", "mSkyboxMaterial">>,
       <<"cleanup", "mIndexBuffers">>,
       <<"cleanup", "mVertexBuffers">>,
       <<"cleanup", "mTextures">>,
       <<"cleanup", "mRenderTargets">>,
       <<"cleanup", "mMaterials">>,
       <<"cleanupInstances", "mMaterialInstances">>,
       <<"cleanup", "mFences">>,
       <<"flush", "mCommandBufferQueue">>,
       <<"execute", "mCommandBufferQueue">>,
       <<"join", "mDriverThread">>,
       <<"requestExit", "mCommandBufferQueue">>,
       <<"emancipate", "mJobSystem">>,
       <<"setTerminated", "mTerminated">> >>

\* mutant: the flag is set before the driver thread is joined
ShutdownPlan_TerminatedBeforeJoin ==
    << <<"terminate", "mPostProcessManager">>,
       <<"cleanup", "mFences">>,
       <<"flush", "mCommandBufferQueue">>,
       <<"execute", "mCommandBufferQueue">>,
       <<"requestExit", "mCommandBufferQueue">>,
       <<"setTerminated", "mTerminated">>,
       <<"join", "mDriverThread">>,
       <<"emancipate", "mJobSystem">> >>

\* The statements of shutdown() in source order: <<operation, operand>>.
ShutdownPlan ==
    << <<"terminate", "mPostProcessManager">>,
       <<"terminate", "mResourceAllocator">>,
       <<"terminate", "mDFG">>,
       <<"terminate", "mRenderableManager">>,
       <<"terminate", "mLightManager">>,
       <<"terminate", "mCameraManager">>,
       <<"terminate", "mFullScreenTriangleRph">>,
       <<"destroy", "mFullScreenTriangleIb">>,
       <<"destroy", "mFullScreenTriangleVb">>,
       <<"destroy", "mDefaultIblTexture">>,
       <<"destroy", "mDefaultIbl">>,
       <<"destroy", "mDefaultMaterial">>,
       <<"cleanup", "mRenderers">>,
       <<"cleanup", "mViews">>,
       <<"cleanup", "mScenes">>,
       <<"cleanup", "mSkyboxes">>,
       <<"destroy", "mSkyboxMaterial">>,
       <<"cleanup", "mIndexBuffers">>,
       <<"cleanup", "mVertexBuffers">>,
       <<"cleanup", "mTextures">>,
       <<"cleanup", "mRenderTargets">>,
       <<"cleanup", "mMaterials">>,
       <<"cleanupInstances", "mMaterialInstances">>,
       <<"cleanup", "mFences">>,
       <<"flush", "mCommandBufferQueue">>,
       <<"execute", "mCommandBufferQueue">>,
       <<"requestExit", "mCommandBufferQueue">>,
       <<"join", "mDriverThread">>,
       <<"emancipate", "mJobSystem">>,
       <<"setTerminated", "mTerminated">> >>

InShutdown(op) ==
    /\ At("shutdown")
    /\ sdStep \in 1..Len(ShutdownPlan)
    /\ ShutdownPlan[sdStep][1] = op

Operand == ShutdownPlan[sdStep][2]

\* on to the next statement; after the last one shutdown() returns
Advance ==
    IF sdStep >= Len(ShutdownPlan)
    THEN pc' = "d_clear" /\ sdStep' = 0
    ELSE pc' = pc /\ sdStep' = sdStep + 1

\* X.terminate() of an internal subsystem, driver.destroyRenderPrimitive(...):
\* each may write driver commands
ShutdownTerminate ==
    /\ InShutdown("terminate")
    /\ subsystems' = subsystems \cup {Operand}
    /\ pending' = [pending EXCEPT !.cmds = TRUE]
    /\ Advance
    /\ UNCHANGED <<handle, filamentEngine, want, fence>>
    /\ UNCHANGED <<mCommandBuffersToExecute, mExitRequested, mFreeSpace, flushCount>>
    /\ UNCHANGED <<regVars, driverVars, histVars, resVars, gcVars, rlVars, mtVars, exVars>>
    /\ UNCHANGED <<threading, jobSystemAdopted, mTerminated, engineFreed, aborted>>

\* destroy(mX) of one of the engine's own resources
ShutdownDestroy ==
    /\ InShutdown("destroy")
    /\ CommitResources(
          IF BuiltinList(Operand) = "mMaterials"
          THEN destroyMaterial(Cur, builtin[Operand])
          ELSE destroyPlain(Cur, builtin[Operand], BuiltinList(Operand)))
    /\ Advance
    /\ UNCHANGED <<handle, filamentEngine, want, fence>>
    /\ UNCHANGED <<mCommandBuffersToExecute, mExitRequested, mFreeSpace, flushCount>>
    /\ UNCHANGED <<regVars, driverVars, histVars, builtin, engVars, gcVars, rlVars, mtVars, exVars>>

\* cleanupResourceList(mX)
ShutdownCleanup ==
    /\ InShutdown("cleanup")
    /\ CommitResources(cleanupResourceList(Cur, ListRef(Operand)))
    /\ Advance
    /\ UNCHANGED <<handle, filamentEngine, want, fence>>
    /\ UNCHANGED <<mCommandBuffersToExecute, mExitRequested, mFreeSpace, flushCount>>
    /\ UNCHANGED <<regVars, driverVars, histVars, builtin, engVars, gcVars, rlVars, mtVars, exVars>>

\* for (auto& item : mMaterialInstances) cleanupResourceList(item.second);
ShutdownCleanupInstances ==
    /\ InShutdown("cleanupInstances")
    /\ CommitResources(CleanupEach(Cur, DOMAIN mMaterialInstances))
    /\ Advance
    /\ UNCHANGED <<handle, filamentEngine, want, fence>>
    /\ UNCHANGED <<mCommandBuffersToExecute, mExitRequested, mFreeSpace, flushCount>>
    /\ UNCHANGED <<regVars, driverVars, histVars, builtin, engVars, gcVars, rlVars, mtVars, exVars>>

\* flushCommandBuffer(mCommandBufferQueue)
ShutdownFlush ==
    /\ InShutdown("flush")
    /\ flushCommandBuffer
    /\ Advance
    /\ UNCHANGED <<handle, filamentEngine, want, fence>>
    /\ UNCHANGED <<mExitRequested, mFreeSpace>>
    /\ UNCHANGED <<regVars, driverVars, executed, signaled, fawBefore, resVars, engVars, gcVars, rlVars, mtVars, exVars>>

\* if (!UTILS_HAS_THREADING) execute();
ShutdownExecute ==
    /\ InShutdown("execute")
    /\ MaybeInlineExecute
    /\ Advance
    /\ UNCHANGED <<handle, filamentEngine, want, fence>>
    /\ UNCHANGED <<mExitRequested, pending, flushCount, fawBefore, clientDriverCalls>>
    /\ UNCHANGED <<regVars, driverVars, resVars, engVars, gcVars, rlVars, mtVars, returned>>

\* mCommandBufferQueue.requestExit()
ShutdownRequestExit ==
    /\ InShutdown("requestExit")
    /\ mExitRequested' = TRUE
    /\ Advance
    /\ UNCHANGED <<handle, filamentEngine, want, fence>>
    /\ UNCHANGED <<mCommandBuffersToExecute, mFreeSpace, pending, flushCount>>
    /\ UNCHANGED <<regVars, driverVars, histVars, resVars, engVars, gcVars, rlVars, mtVars, exVars>>

\* if (UTILS_HAS_THREADING) mDriverThread.join();
ShutdownJoin ==
    /\ InShutdown("join")
    /\ threading => driverPc = "done"
    /\ Advance
    /\ UNCHANGED <<handle, filamentEngine, want, fence>>
    /\ UNCHANGED <<regVars, driverVars, queueVars, histVars, resVars, engVars, gcVars, rlVars, mtVars, exVars>>

\* mJobSystem.emancipate()
ShutdownEmancipate ==
    /\ InShutdown("emancipate")
    /\ jobSystemAdopted' = FALSE
    /\ Advance
    /\ UNCHANGED <<handle, filamentEngine, want, fence>>
    /\ UNCHANGED <<regVars, driverVars, queueVars, histVars, resVars, gcVars, rlVars, mtVars, exVars>>
    /\ UNCHANGED <<threading, subsystems, mTerminated, engineFreed, aborted>>

\* mTerminated = true
ShutdownSetTerminated ==
    /\ InShutdown("setTerminated")
    /\ mTerminated' = TRUE
    /\ Advance
    /\ UNCHANGED <<handle, filamentEngine, want, fence>>
    /\ UNCHANGED <<regVars, driverVars, queueVars, histVars, resVars, gcVars, rlVars, mtVars, exVars>>
    /\ UNCHANGED <<threading, subsystems, jobSystemAdopted, engineFreed, aborted>>

\* *engine = nullptr: clears the pointer Engine::destroy was given, which is
\* the caller's own (called as destroy(Engine**)) or a copy of it (destroy(Engine*))
DestroyClear ==
    /\ At("d_clear")
    /\ \E callersOwn \in BOOLEAN : handle' = IF callersOwn THEN "nullptr" ELSE handle
    /\ pc' = "d_dtor"
    /\ UNCHANGED <<filamentEngine, sdStep, want, fence>>
    /\ UNCHANGED <<regVars, driverVars, queueVars, histVars, resVars, engVars, gcVars, rlVars, mtVars, exVars>>

\* the unique_ptr goes out of scope: FEngine::~FEngine(), which ends with
\* delete mResourceAllocator; delete mDriver;
DestroyDtor ==
    /\ At("d_dtor")
    /\ IF mTerminated
       THEN /\ engineFreed' = TRUE
            /\ DriverCall("delete")
            /\ filamentEngine' = "nullptr"
            /\ pc' = "destroyed"
            /\ UNCHANGED <<handle, sdStep, want, fence>>
            /\ UNCHANGED <<regVars, driverVars, queueVars, executed, signaled, fawBefore, resVars, gcVars, rlVars, mtVars, exVars>>
            /\ UNCHANGED <<threading, subsystems, jobSystemAdopted, mTerminated, aborted>>
       ELSE Abort

\* The process exits (main returns or exit() is called) between two Engine
\* calls: the static sEngines map is destructed, and with it every FEngine it
\* still owns.  ~FEngine() checks ASSERT_DESTRUCTOR(mTerminated) and deletes
\* the driver; a still joinable mDriverThread member then ends the process
\* through std::terminate.
StaticDestruction ==
    /\ ~aborted /\ pc \in {"idle", "destroyed"}
    /\ sEnginesLock = "free"
    /\ pc' = "exited"
    /\ sEngines' = {}
    /\ IF "engine" \in sEngines
       THEN /\ engineFreed' = TRUE
            /\ DriverCall("delete")
            /\ aborted' = threading
       ELSE UNCHANGED <<engineFreed, clientDriverCalls, aborted>>
    /\ UNCHANGED <<handle, filamentEngine, sdStep, want, fence, sEnginesLock>>
    /\ UNCHANGED <<driverVars, queueVars, executed, signaled, fawBefore, resVars, gcVars, rlVars, mtVars, exVars>>
    /\ UNCHANGED <<threading, subsystems, jobSystemAdopted, mTerminated>>

shutdown ==
    \/ ShutdownTerminate
    \/ ShutdownDestroy
    \/ ShutdownCleanup
    \/ ShutdownCleanupInstances
    \/ ShutdownFlush
    \/ ShutdownExecute
    \/ ShutdownRequestExit
    \/ ShutdownJoin
    \/ ShutdownEmancipate
    \/ ShutdownSetTerminated

loop ==
    \/ DriverCreate
    \/ DriverLatch
    \/ DriverWait
    \/ DriverExec
    \/ DriverRelease
    \/ DriverTerminate

Lifecycle ==
    \/ FEngine_create
    \/ CreateAwait
    \/ CreateJoinFailed
    \/ CreateRegister
    \/ CreateInit
    \/ Engine_destroy
    \/ DestroyLock
    \/ DestroyUnlock
    \/ shutdown
    \/ DestroyClear
    \/ DestroyDtor
    \/ loop

\* The engine used for its resources: create, destroy, leak, shut down.
Next ==
    \/ Lifecycle
    \/ assertValid
    \/ \E l \in ListNames : Create(l)
    \/ \E l \in EntryPointLists : UseAfterDestroy(l)
    \/ \E m \in Addr : CreateMaterialInstance(m)
    \/ getSkyboxMaterial
    \/ \E p \in Addr : DestroyPlain(p)
    \/ \E p \in Addr : DestroyMaterial(p)
    \/ \E p \in Addr : DestroyMaterialInstance(p)
    \/ \E l \in Kinds : DestroyNull(l)
    \/ StaticDestruction

Spec == Init /\ [][Next]_vars


\* ----------------------------------------------- client calls: command stream
\* Any engine call that serialises n bytes of commands into the circular
\* buffer.  Asking for more than the buffer can ever hold is fatal.
Enqueue(n) ==
    /\ At("idle") /\ handle = "engine"
    /\ flushCount < MaxFlush
    /\ IF pending.bytes + n > CONFIG_COMMAND_BUFFERS_SIZE
       THEN Abort
       ELSE /\ want' = n
            /\ pc' = "enqueue"
            /\ UNCHANGED <<handle, filamentEngine, sdStep, fence>>
            /\ UNCHANGED <<regVars, driverVars, queueVars, histVars, resVars, engVars, gcVars, rlVars, mtVars, exVars>>

\* The write itself: the producer stays blocked while the free space is too small.
EnqueueWrite ==
    /\ At("enqueue")
    /\ want <= mFreeSpace
    /\ mFreeSpace' = mFreeSpace - want
    /\ pending' = [pending EXCEPT !.bytes = @ + want]
    /\ want' = 0
    /\ pc' = "idle"
    /\ UNCHANGED <<handle, filamentEngine, sdStep, fence>>
    /\ UNCHANGED <<mCommandBuffersToExecute, mExitRequested, flushCount>>
    /\ UNCHANGED <<regVars, driverVars, histVars, resVars, engVars, gcVars, rlVars, mtVars, exVars>>

\* FEngine::flush(): flushCommandBuffer(mCommandBufferQueue)
Flush ==
    /\ At("idle") /\ handle = "engine"
    /\ flushCount < MaxFlush
    /\ flushCommandBuffer
    /\ UNCHANGED <<mExitRequested, mFreeSpace>>
    /\ UNCHANGED <<clientVars, regVars, driverVars, executed, signaled, fawBefore, resVars, engVars, gcVars, rlVars, mtVars, exVars>>

\* Engine::flushAndWait(): FFence::waitAndDestroy(createFence(SOFT), FLUSH).
\* First createFence(): the new fence goes into mFences and its marker command
\* into the command stream.
FlushAndWait ==
    /\ At("idle") /\ handle = "engine"
    /\ flushCount < MaxFlush
    /\ HasFree(heap)
    /\ Commit(create(Cur, "mFences"))
    /\ fence' = NewAddr(heap)
    /\ pending' = [pending EXCEPT !.fences = @ \cup {NewAddr(heap)}]
    /\ fawBefore' = flushCount
    /\ pc' = "faw_flush"
    /\ UNCHANGED <<handle, filamentEngine, sdStep, want>>
    /\ UNCHANGED <<mCommandBuffersToExecute, mExitRequested, mFreeSpace, flushCount>>
    /\ UNCHANGED <<executed, signaled, clientDriverCalls, builtin>>
    /\ UNCHANGED <<regVars, driverVars, engVars, gcVars, rlVars, mtVars, exVars>>

\* waitAndDestroy, mode FLUSH: engine.flush()
FenceFlush ==
    /\ At("faw_flush")
    /\ flushCommandBuffer
    /\ pc' = "faw_wait"
    /\ UNCHANGED <<handle, filamentEngine, sdStep, want, fence>>
    /\ UNCHANGED <<mExitRequested, mFreeSpace>>
    /\ UNCHANGED <<regVars, driverVars, executed, signaled, fawBefore, resVars, engVars, gcVars, rlVars, mtVars, exVars>>

\* the wait has ended: the fence's marker command was replayed
FenceSignaled(f, sig) == f \in sig

\* mutant: the wait returns although the fence has not been signaled
FenceWait_NoWait ==
    /\ At("faw_wait")
    /\ MaybeInlineExecute
    /\ pc' = "faw_destroy"
    /\ UNCHANGED <<handle, filamentEngine, sdStep, want, fence>>
    /\ UNCHANGED <<mExitRequested, pending, flushCount, fawBefore, clientDriverCalls>>
    /\ UNCHANGED <<regVars, driverVars, resVars, engVars, gcVars, rlVars, mtVars, returned>>

\* waitAndDestroy: wait for the fence; without threading the waiting thread
\* replays the commands itself
FenceWait ==
    /\ At("faw_wait")
    /\ MaybeInlineExecute
    /\ FenceSignaled(fence, signaled')
    /\ pc' = "faw_destroy"
    /\ UNCHANGED <<handle, filamentEngine, sdStep, want, fence>>
    /\ UNCHANGED <<mExitRequested, pending, flushCount, fawBefore, clientDriverCalls>>
    /\ UNCHANGED <<regVars, driverVars, resVars, engVars, gcVars, rlVars, mtVars, returned>>

\* waitAndDestroy: engine.destroy(fence), and flushAndWait() returns
FenceDestroy ==
    /\ At("faw_destroy")
    /\ CommitResources(destroyPlain(Cur, fence, "mFences"))
    /\ fence' = NULL
    /\ pc' = "idle"
    /\ UNCHANGED <<handle, filamentEngine, sdStep, want>>
    /\ UNCHANGED <<mCommandBuffersToExecute, mExitRequested, mFreeSpace, flushCount>>
    /\ UNCHANGED <<regVars, driverVars, histVars, builtin, engVars, gcVars, rlVars, mtVars, exVars>>

\* Engine::execute(): ASSERT_PRECONDITION(!UTILS_HAS_THREADING, ...); flush();
Engine_execute ==
    /\ At("idle") /\ handle = "engine"
    /\ flushCount < MaxFlush
    /\ IF threading
       THEN Abort
       ELSE /\ flushCommandBuffer
            /\ pc' = "execute"
            /\ UNCHANGED <<handle, filamentEngine, sdStep, want, fence>>
            /\ UNCHANGED <<mExitRequested, mFreeSpace>>
            /\ UNCHANGED <<regVars, driverVars, executed, signaled, fawBefore, resVars, engVars, gcVars, rlVars, mtVars, exVars>>

\* Engine::execute(): upcast(this)->execute();
Engine_execute_run ==
    /\ At("execute")
    /\ InlineExecute
    /\ pc' = "idle"
    /\ UNCHANGED <<handle, filamentEngine, sdStep, want, fence>>
    /\ UNCHANGED <<mExitRequested, pending, flushCount, fawBefore, clientDriverCalls>>
    /\ UNCHANGED <<regVars, driverVars, resVars, engVars, gcVars, rlVars, mtVars, returned>>

\* The engine used for its command stream: enqueue, flush, wait, shut down.
PipeNext ==
    \/ Lifecycle
    \/ \E n \in 1..MaxCmdSize : Enqueue(n)
    \/ EnqueueWrite
    \/ Flush
    \/ FlushAndWait
    \/ FenceFlush
    \/ FenceWait
    \/ FenceDestroy
    \/ Engine_execute
    \/ Engine_execute_run

PipeSpec == Init /\ [][PipeNext]_vars


\* Engine::create() followed at once by Engine::destroy(), nothing in between.
ClientLifecycle ==
    \/ FEngine_create
    \/ CreateAwait
    \/ CreateJoinFailed
    \/ CreateRegister
    \/ CreateInit
    \/ Engine_destroy
    \/ DestroyLock
    \/ DestroyUnlock
    \/ shutdown
    \/ DestroyClear
    \/ DestroyDtor

FairNext == ClientLifecycle \/ loop

\* Both threads are runnable threads of one process: each keeps being scheduled.
FairSpec == Init /\ [][FairNext]_vars /\ WF_vars(ClientLifecycle) /\ WF_vars(loop)

\* ------------------------------------------------------- entities, FEngine::gc
\* The entity manager, the component managers and the job system are declared
\* outside Engine.cpp; their operations follow their documented contracts.

\* the client is between two calls and no gc() is running
ClientIdle == At("idle") /\ handle = "engine" /\ gcPc \in {"idle", "returned"}

\* EntityManager::create()
EntityCreate(e) ==
    /\ ClientIdle
    /\ e \notin mEntityManager
    /\ mEntityManager' = mEntityManager \cup {e}
    /\ gcPc' = "idle"
    /\ UNCHANGED <<components, gcJobs>>
    /\ UNCHANGED <<clientVars, regVars, driverVars, queueVars, histVars, resVars, engVars, rlVars, mtVars, exVars>>

\* EntityManager::destroy(e): the entity is dead, its components stay behind
EntityDestroy(e) ==
    /\ ClientIdle
    /\ e \in mEntityManager
    /\ mEntityManager' = mEntityManager \ {e}
    /\ gcPc' = "idle"
    /\ UNCHANGED <<components, gcJobs>>
    /\ UNCHANGED <<clientVars, regVars, driverVars, queueVars, histVars, resVars, engVars, rlVars, mtVars, exVars>>

\* The managers an Engine call adds a component to.
\* createCamera: mCameraManager; createLight: mLightManager; createRenderable:
\* mRenderableManager, and mTransformManager if the entity has no transform yet.
ComponentsOf(call) ==
    CASE call = "createCamera"     -> {"mCameraManager"}
      [] call = "createLight"      -> {"mLightManager"}
      [] call = "createRenderable" -> {"mRenderableManager", "mTransformManager"}

\* FEngine::createCamera / createLight / createRenderable (entity)
CreateComponent(call, e) ==
    /\ ClientIdle
    /\ e \in mEntityManager
    /\ components' = [m \in Managers |->
                        IF m \in ComponentsOf(call) THEN components[m] \cup {e}
                        ELSE components[m]]
    /\ gcPc' = "idle"
    /\ UNCHANGED <<mEntityManager, gcJobs>>
    /\ UNCHANGED <<clientVars, regVars, driverVars, queueVars, histVars, resVars, engVars, rlVars, mtVars, exVars>>

\* FEngine::destroy(Entity e): every manager drops its component of e
DestroyEntity(e) ==
    /\ ClientIdle
    /\ components' = [m \in Managers |-> components[m] \ {e}]
    /\ gcPc' = "idle"
    /\ UNCHANGED <<mEntityManager, gcJobs>>
    /\ UNCHANGED <<clientVars, regVars, driverVars, queueVars, histVars, resVars, engVars, rlVars, mtVars, exVars>>

\* mutant: no job is submitted for the transform manager
GcOrder_NoTransform == <<"mRenderableManager", "mLightManager", "mCameraManager">>

\* gc(): the managers whose gc is submitted as a child job, in source order
GcOrder == <<"mRenderableManager", "mLightManager", "mTransformManager", "mCameraManager">>

\* gc(): auto parent = js.createJob();
GcBegin ==
    /\ ClientIdle
    /\ gcPc' = "fork"
    /\ gcJobs' = [m \in Managers |-> NoJob]
    /\ UNCHANGED <<mEntityManager, components>>
    /\ UNCHANGED <<clientVars, regVars, driverVars, queueVars, histVars, resVars, engVars, rlVars, mtVars, exVars>>

\* the position in GcOrder of the next js.run(createJob(js, parent, &X::gc, ...))
NextSubmit ==
    IF \E i \in 1..Len(GcOrder) : gcJobs[GcOrder[i]].state = "none"
    THEN CHOOSE i \in 1..Len(GcOrder) :
            /\ gcJobs[GcOrder[i]].state = "none"
            /\ \A j \in 1..(i - 1) : gcJobs[GcOrder[j]].state # "none"
    ELSE 0

\* gc(): js.run(jobs::createJob(js, parent, &X::gc, &mX, em), DONT_SIGNAL)
GcSubmit ==
    /\ ~aborted /\ gcPc = "fork"
    /\ IF NextSubmit = 0
       THEN gcPc' = "wait" /\ gcJobs' = gcJobs
       ELSE /\ gcJobs' = [gcJobs EXCEPT ![GcOrder[NextSubmit]].state = "queued"]
            /\ gcPc' = gcPc
    /\ UNCHANGED <<mEntityManager, components>>
    /\ UNCHANGED <<clientVars, regVars, driverVars, queueVars, histVars, resVars, engVars, rlVars, mtVars, exVars>>

\* X::gc(em): the manager drops the components whose entity is not alive
Sweep(held, em) == held \cap em

\* a job-system thread runs the child job of manager m
GcJobRun(m) ==
    /\ ~aborted /\ gcJobs[m].state = "queued"
    /\ components' = [components EXCEPT ![m] = Sweep(@, mEntityManager)]
    /\ gcJobs' = [gcJobs EXCEPT ![m] = [state |-> "done", swept |-> @.swept + 1]]
    /\ UNCHANGED <<mEntityManager, gcPc>>
    /\ UNCHANGED <<clientVars, regVars, driverVars, queueVars, histVars, resVars, engVars, rlVars, mtVars, exVars>>

\* gc(): js.runAndWait(parent) returns when every child of parent has completed
GcRunAndWait ==
    /\ ~aborted /\ gcPc = "wait"
    /\ \A m \in Managers : gcJobs[m].state # "queued"
    /\ gcPc' = "returned"
    /\ UNCHANGED <<mEntityManager, components, gcJobs>>
    /\ UNCHANGED <<clientVars, regVars, driverVars, queueVars, histVars, resVars, engVars, rlVars, mtVars, exVars>>

gc ==
    \/ GcBegin
    \/ GcSubmit
    \/ \E m \in Managers : GcJobRun(m)
    \/ GcRunAndWait

EngineCreate ==
    \/ FEngine_create
    \/ CreateAwait
    \/ CreateJoinFailed
    \/ CreateRegister
    \/ CreateInit

\* The engine used for its entities and components: create, destroy, gc.
\* Nothing here flushes the command queue, so the driver thread gets as far as
\* its first waitForCommands() and stays blocked there.
GcNext ==
    \/ EngineCreate
    \/ DriverCreate
    \/ DriverLatch
    \/ \E e \in Entities : EntityCreate(e)
    \/ \E e \in Entities : EntityDestroy(e)
    \/ \E e \in Entities : \E call \in {"createCamera", "createLight", "createRenderable"} :
          CreateComponent(call, e)
    \/ \E e \in Entities : DestroyEntity(e)
    \/ gc

GcSpec == Init /\ [][GcNext]_vars


\* ---------------------------------------------------------------- ResourceList
\* ResourceList is declared outside Engine.cpp.  It is kept here as the
\* sequence of its elements, in insertion order, and operated on as documented:
\* insert, remove-by-identity, empty/size, and take-all-and-clear.

ListElements(items) == { items[i] : i \in 1..Len(items) }

\* ResourceList::insert(p)
ListInsert(items, ptr) ==
    IF ptr \in ListElements(items) THEN items ELSE Append(items, ptr)

\* mutant: remove() reports success whether or not the address was present
ListRemoveResult_Always(items, ptr) == TRUE

\* ResourceList::remove(p): the value returned
ListRemoveResult(items, ptr) == ptr \in ListElements(items)

\* ResourceList::remove(p): the list afterwards
ListRemove(items, ptr) == SelectSeq(items, LAMBDA x : x # ptr)

\* ResourceList::empty() and size()
ListEmpty(items) == Len(items) = 0
ListSize(items) == Len(items)

\* list.insert(p) on the list under test
RlInsert(ptr) ==
    /\ rlOps < MaxListOps
    /\ rlItems' = ListInsert(rlItems, ptr)
    /\ rlModel' = rlModel \cup {ptr}
    /\ rlRet' = [op |-> "insert", value |-> "void", expect |-> "void"]
    /\ rlOps' = rlOps + 1
    /\ UNCHANGED <<clientVars, regVars, driverVars, queueVars, histVars, resVars, engVars, gcVars, mtVars, exVars>>

\* list.remove(p) on the list under test
RlRemove(ptr) ==
    /\ rlOps < MaxListOps
    /\ rlItems' = ListRemove(rlItems, ptr)
    /\ rlModel' = rlModel \ {ptr}
    /\ rlRet' = [op |-> "remove", value |-> ListRemoveResult(rlItems, ptr),
                 expect |-> ptr \in rlModel]
    /\ rlOps' = rlOps + 1
    /\ UNCHANGED <<clientVars, regVars, driverVars, queueVars, histVars, resVars, engVars, gcVars, mtVars, exVars>>

\* list.getListAndClear() on the list under test
RlGetListAndClear ==
    /\ rlOps < MaxListOps
    /\ rlItems' = <<>>
    /\ rlModel' = {}
    /\ rlRet' = [op |-> "getListAndClear", value |-> ListElements(rlItems),
                 expect |-> rlModel]
    /\ rlOps' = rlOps + 1
    /\ UNCHANGED <<clientVars, regVars, driverVars, queueVars, histVars, resVars, engVars, gcVars, mtVars, exVars>>

\* Any sequence of operations on one ResourceList.
RlNext ==
    \/ \E ptr \in Addr : RlInsert(ptr)
    \/ \E ptr \in Addr : RlRemove(ptr)
    \/ RlGetListAndClear

RlSpec == Init /\ [][RlNext]_vars


\* ===================================================================== claims

\* ------------------------------------------------- resources with address reuse
\* The heap allocator hands the block of a freed object out again.  Here the
\* client creates and destroys resources of every kind while freed addresses
\* come back into use, and it may still hold a pointer of the old type to an
\* address that now carries an object of another kind.

\* the block of a freed object goes back to the allocator: the next
\* mHeapAllocator.make<T>() may return this address
Recycle(a) ==
    /\ At("idle") /\ handle = "engine"
    /\ a \in ClientObjects
    /\ heap[a].freed > 0
    /\ heap' = [heap EXCEPT ![a] = NoObject]
    /\ UNCHANGED <<lists, mMaterialInstances, builtin>>
    /\ UNCHANGED <<clientVars, regVars, driverVars, queueVars, histVars, engVars, gcVars, rlVars, mtVars, exVars>>

\* Engine::destroy(const T* p) through a pointer of type l kept from an object
\* that used to live at p, the address now carrying an object of another kind
DestroyStale(p, l) ==
    /\ At("idle") /\ handle = "engine"
    /\ p \in ClientObjects
    /\ l # heap[p].kind
    /\ CommitResources(
          IF l = "mMaterials" THEN destroyMaterial(Cur, p)
          ELSE destroyPlain(Cur, p, l))
    /\ UNCHANGED <<mCommandBuffersToExecute, mExitRequested, mFreeSpace, flushCount>>
    /\ UNCHANGED <<clientVars, regVars, driverVars, histVars, builtin, engVars, gcVars, rlVars, mtVars, exVars>>

\* the kinds the client works with here: two plain ones and materials
ReuseKinds == {"mTextures", "mVertexBuffers", "mMaterials"}

ListsNext ==
    \/ EngineCreate
    \/ DriverCreate
    \/ DriverLatch
    \/ \E l \in ReuseKinds : Create(l)
    \/ \E m \in Addr : CreateMaterialInstance(m)
    \/ \E p \in Addr : DestroyPlain(p)
    \/ \E p \in Addr : DestroyMaterial(p)
    \/ \E p \in Addr : DestroyMaterialInstance(p)
    \/ \E l \in Kinds : DestroyNull(l)
    \/ \E p \in Addr : \E l \in ReuseKinds : DestroyStale(p, l)
    \/ \E a \in Addr : Recycle(a)

ListsSpec == Init /\ [][ListsNext]_vars


\* ------------------------------------------ the sweep with re-entrant destroys
\* The terminate() functions of the resources are declared outside Engine.cpp
\* and are handed the engine: any of them may call FEngine::destroy() on other
\* resources.  Here shutdown() sweeps the lists while each item's terminate()
\* destroys any members of the list being swept.

\* auto copy(list.getListAndClear()): what is left of the list (nothing)
getListAndClear(r, ref) == SetList(r, ref, {})

\* a destroy() made from inside a terminate() is noted in the log of its target
NoteReentrant(r, t, listed) ==
    [r EXCEPT !.heap[t].log = Logged(@, "destroy", listed)]

RECURSIVE ReentrantDestroys(_, _, _)
\* the destroy(t) calls one terminate() makes, for every t of targets
ReentrantDestroys(r, ref, targets) ==
    IF targets = {} THEN r
    ELSE LET t == CHOOSE x \in targets : \A y \in targets : x <= y
         IN  ReentrantDestroys(
                NoteReentrant(terminateAndDestroy(r, t, ref), t, ListRemoves(r, ref, t)),
                ref, targets \ {t})

RECURSIVE SweepItems(_, _, _, _)
\* for (T* item : copy) { item->terminate(*this); mHeapAllocator.destroy(item); }
\* with calls[item] the members terminate() of item destroys; the copy is
\* walked from the lowest address up
SweepItems(r, ref, copy, calls) ==
    IF copy = {} THEN r
    ELSE LET item == CHOOSE x \in copy : \A y \in copy : x <= y
         IN  SweepItems(
                Free(Terminate(ReentrantDestroys(r, ref, calls[item]), {item}), {item}),
                ref, copy \ {item}, calls)

\* mutant: the list is walked in place and cleared afterwards
cleanupResourceListReentrant_ClearAfter(r, ref, calls) ==
    IF GetList(r, ref) # {}
    THEN SetList(SweepItems(r, ref, GetList(r, ref), calls), ref, {})
    ELSE r

\* FEngine::cleanupResourceList(list) with re-entrant destroys
cleanupResourceListReentrant(r, ref, calls) ==
    IF GetList(r, ref) # {}
    THEN SweepItems(getListAndClear(r, ref), ref, GetList(r, ref), calls)
    ELSE r

\* cleanupResourceList(mX) in shutdown(), the terminate() of each item
\* destroying any of the members the list had
ShutdownCleanupReentrant ==
    /\ InShutdown("cleanup")
    /\ \E calls \in [lists[Operand] -> SUBSET lists[Operand]] :
          CommitResources(cleanupResourceListReentrant(Cur, ListRef(Operand), calls))
    /\ Advance
    /\ UNCHANGED <<handle, filamentEngine, want, fence>>
    /\ UNCHANGED <<mCommandBuffersToExecute, mExitRequested, mFreeSpace, flushCount>>
    /\ UNCHANGED <<regVars, driverVars, histVars, builtin, engVars, gcVars, rlVars, mtVars, exVars>>

\* the kinds the client leaves behind here
SweepKinds == {"mTextures", "mRenderers"}

SweepNext ==
    \/ EngineCreate
    \/ loop
    \/ \E l \in SweepKinds : Create(l)
    \/ Engine_destroy
    \/ DestroyLock
    \/ DestroyUnlock
    \/ ShutdownTerminate
    \/ ShutdownDestroy
    \/ ShutdownCleanupReentrant
    \/ ShutdownCleanupInstances
    \/ ShutdownFlush
    \/ ShutdownExecute
    \/ ShutdownRequestExit
    \/ ShutdownJoin
    \/ ShutdownEmancipate
    \/ ShutdownSetTerminated
    \/ DestroyClear
    \/ DestroyDtor

SweepSpec == Init /\ [][SweepNext]_vars


\* --------------------------------------- Engine::destroy from several threads
\* Once the engine is created and registered, each thread calls Engine::destroy
\* once, through either overload, with its own Engine* variable, which holds
\* the engine, nullptr, or a pointer that is not in the registry ("other").
\* shutdown() is taken as one step here; its statements are those of ShutdownPlan.

Caller(t, rec) == callers' = [callers EXCEPT ![t] = rec]

\* the thread enters Engine::destroy: destroy(Engine* engine) { destroy(&engine); }
\* passes the address of its parameter, a copy of the caller's pointer; with a
\* null Engine** the body of destroy(Engine**) is skipped
CallDestroy(t, how, h) ==
    /\ At("idle") /\ handle = "engine"
    /\ callers[t].pc = "out"
    /\ Caller(t, [NoCall EXCEPT
                    !.pc = IF how = "null_arg" THEN "returned" ELSE "d_acquire",
                    !.how = how, !.handle = h, !.engine = h])
    /\ UNCHANGED shutdowns
    /\ UNCHANGED <<clientVars, regVars, driverVars, queueVars, histVars, resVars, engVars, gcVars, rlVars, exVars>>

\* mutant: the registry is entered without waiting for the mutex
CallerAcquire_NoWait(t) ==
    /\ ~aborted /\ callers[t].pc = "d_acquire"
    /\ sEnginesLock' = t
    /\ Caller(t, [callers[t] EXCEPT !.pc = "d_find"])
    /\ UNCHANGED <<sEngines, shutdowns>>
    /\ UNCHANGED <<clientVars, driverVars, queueVars, histVars, resVars, engVars, gcVars, rlVars, exVars>>

\* std::unique_lock<std::mutex> guard(sEnginesLock)
CallerAcquire(t) ==
    /\ ~aborted /\ callers[t].pc = "d_acquire"
    /\ sEnginesLock = "free"
    /\ sEnginesLock' = t
    /\ Caller(t, [callers[t] EXCEPT !.pc = "d_find"])
    /\ UNCHANGED <<sEngines, shutdowns>>
    /\ UNCHANGED <<clientVars, driverVars, queueVars, histVars, resVars, engVars, gcVars, rlVars, exVars>>

\* pos = sEngines.find(*engine): the entry is looked up
CallerFind(t) ==
    /\ ~aborted /\ callers[t].pc = "d_find"
    /\ Caller(t, [callers[t] EXCEPT
                    !.pc = IF callers[t].engine \in sEngines THEN "d_erase" ELSE "d_unlock"])
    /\ UNCHANGED <<sEngines, sEnginesLock, shutdowns>>
    /\ UNCHANGED <<clientVars, driverVars, queueVars, histVars, resVars, engVars, gcVars, rlVars, exVars>>

\* std::swap(filamentEngine, pos->second); sEngines.erase(pos)
CallerErase(t) ==
    /\ ~aborted /\ callers[t].pc = "d_erase"
    /\ sEngines' = sEngines \ {callers[t].engine}
    /\ Caller(t, [callers[t] EXCEPT !.pc = "d_unlock", !.filamentEngine = callers[t].engine])
    /\ UNCHANGED <<sEnginesLock, shutdowns>>
    /\ UNCHANGED <<clientVars, driverVars, queueVars, histVars, resVars, engVars, gcVars, rlVars, exVars>>

\* guard.unlock(); if (filamentEngine) ...
CallerUnlock(t) ==
    /\ ~aborted /\ callers[t].pc = "d_unlock"
    /\ sEnginesLock' = "free"
    /\ Caller(t, [callers[t] EXCEPT
                    !.pc = IF callers[t].filamentEngine # "nullptr"
                           THEN "d_shutdown" ELSE "returned"])
    /\ UNCHANGED <<sEngines, shutdowns>>
    /\ UNCHANGED <<clientVars, driverVars, queueVars, histVars, resVars, engVars, gcVars, rlVars, exVars>>

\* filamentEngine->shutdown()
CallerShutdown(t) ==
    /\ ~aborted /\ callers[t].pc = "d_shutdown"
    /\ shutdowns' = shutdowns + 1
    /\ mTerminated' = TRUE
    /\ jobSystemAdopted' = FALSE
    /\ Caller(t, [callers[t] EXCEPT !.pc = "d_clear", !.ran = TRUE])
    /\ UNCHANGED <<threading, subsystems, engineFreed, aborted>>
    /\ UNCHANGED <<clientVars, regVars, driverVars, queueVars, histVars, resVars, gcVars, rlVars, exVars>>

\* *engine = nullptr; the caller's own pointer only when its address was passed
CallerClear(t) ==
    /\ ~aborted /\ callers[t].pc = "d_clear"
    /\ Caller(t, [callers[t] EXCEPT
                    !.pc = "d_dtor",
                    !.engine = "nullptr",
                    !.handle = IF callers[t].how = "by_pointer" THEN "nullptr" ELSE @])
    /\ UNCHANGED shutdowns
    /\ UNCHANGED <<clientVars, regVars, driverVars, queueVars, histVars, resVars, engVars, gcVars, rlVars, exVars>>

\* filamentEngine goes out of scope: ~FEngine()
CallerDtor(t) ==
    /\ ~aborted /\ callers[t].pc = "d_dtor"
    /\ engineFreed' = TRUE
    /\ Caller(t, [callers[t] EXCEPT !.pc = "returned", !.filamentEngine = "nullptr"])
    /\ UNCHANGED shutdowns
    /\ UNCHANGED <<threading, subsystems, jobSystemAdopted, mTerminated, aborted>>
    /\ UNCHANGED <<clientVars, regVars, driverVars, queueVars, histVars, resVars, gcVars, rlVars, exVars>>

RegistryNext ==
    \/ EngineCreate
    \/ DriverCreate
    \/ DriverLatch
    \/ \E t \in Threads : \E how \in {"by_pointer", "by_value"} :
       \E h \in {"engine", "nullptr", "other"} : CallDestroy(t, how, h)
    \/ \E t \in Threads : CallDestroy(t, "null_arg", "engine")
    \/ \E t \in Threads : CallerAcquire(t)
    \/ \E t \in Threads : CallerFind(t)
    \/ \E t \in Threads : CallerErase(t)
    \/ \E t \in Threads : CallerUnlock(t)
    \/ \E t \in Threads : CallerShutdown(t)
    \/ \E t \in Threads : CallerClear(t)
    \/ \E t \in Threads : CallerDtor(t)

RegistrySpec == Init /\ [][RegistryNext]_vars


\* ------------------------------------------------- one execute() step, any input
\* CommandBufferQueue is declared outside Engine.cpp.  Here waitForCommands()
\* may return any list of descriptors, each with or without a begin pointer,
\* and the driver thread runs FEngine::execute() on it.

\* the descriptor lists of length n with ids first+1 .. first+n, one byte each
Batches(first, n) ==
    { [i \in 1..n |-> [id |-> first + i, size |-> 1, fences |-> {}, cmds |-> TRUE,
                      begin |-> b[i]]] : b \in [1..n -> {NULL, 1}] }

\* auto buffers = mCommandBufferQueue.waitForCommands();
\* if (buffers.empty()) return false;
DriverWaitAny ==
    /\ ~aborted /\ driverPc = "wait"
    /\ \E n \in 0..(MaxBatch - flushCount) : \E batch \in Batches(flushCount, n) :
          /\ n <= mFreeSpace
          /\ buffers' = batch
          /\ returned' = returned \o batch
          /\ flushCount' = flushCount + n
          /\ mFreeSpace' = mFreeSpace - n
          /\ driverPc' = IF batch = <<>> THEN "terminate" ELSE "exec"
    /\ UNCHANGED <<mDriver, mDriverBarrier, driverTerminated, released>>
    /\ UNCHANGED <<mCommandBuffersToExecute, mExitRequested, pending>>
    /\ UNCHANGED <<clientVars, regVars, histVars, resVars, engVars, gcVars, rlVars, mtVars>>

ExecNext ==
    \/ EngineCreate
    \/ DriverCreate
    \/ DriverLatch
    \/ DriverWaitAny
    \/ DriverExec
    \/ DriverRelease
    \/ DriverTerminate

ExecSpec == Init /\ [][ExecNext]_vars


Range(seq) == { seq[i] : i \in 1..Len(seq) }

\* C1: the command batches are replayed in the order flush() published them,
\* each at most once, and none before it was published: the replay log is
\* always a prefix of the sequence of published batches 1, 2, ..., flushCount.
C1_FifoExactlyOnce ==
    /\ Len(executed) <= flushCount
    /\ \A i \in 1..Len(executed) : executed[i] = i

\* the producer is blocked by backpressure while batches have been replayed
C1_Witness ==
    /\ threading
    /\ pc = "enqueue" /\ want > mFreeSpace
    /\ Len(executed) >= 1

\* C2: when flushAndWait() has finished waiting (it is about to destroy its
\* fence and return), every batch published before the call has been replayed.
C2_FlushAndWaitIsFence ==
    pc = "faw_destroy" => \A id \in 1..fawBefore : id \in Range(executed)

\* flushAndWait() is returning and batches had been flushed before the call
C2_Witness ==
    /\ threading
    /\ pc = "faw_destroy"
    /\ fawBefore >= 1

\* C3: every engine in the registry has a successfully created driver.
C3_RegisteredHasDriver ==
    "engine" \in sEngines => mDriver = "driver"

\* without threading the engine is in the registry although createDriver() failed
C3_Witness ==
    /\ ~threading
    /\ "engine" \in sEngines /\ mDriver = "null"

\* C4: once Engine::destroy has removed the engine from the registry and
\* returned, no public entry point changes the engine's resource state.
C4_NoMutationAfterDestroy ==
    [][(pc = "destroyed" /\ "engine" \notin sEngines)
          => UNCHANGED <<heap, lists, mMaterialInstances>>]_vars

\* a renderer, view or scene was created in an engine that Engine::destroy had
\* already shut down, removed from the registry and deleted
C4_Witness ==
    /\ mDriver = "driver"
    /\ pc = "destroyed" /\ engineFreed /\ "engine" \notin sEngines
    /\ \E l \in EntryPointLists : lists[l] # {}

\* C5: shutdown() never runs on a thread that holds the registry lock.
C5_ShutdownOutsideLock ==
    pc = "shutdown" => sEnginesLock = "free"

\* shutdown() is under way and the engine has left the registry
C5_Witness ==
    /\ pc = "shutdown" /\ sdStep >= 2
    /\ "engine" \notin sEngines

HasInstances(p) ==
    p \in DOMAIN mMaterialInstances /\ mMaterialInstances[p] # {}

\* C6: destroy(material) with an instance still registered is refused without
\* a fatal error and changes nothing; destroy(material) of a registered
\* material without registered instances removes it from mMaterials and
\* terminates and frees it, leaving the instance lists as they were.
C6_MaterialDestroy ==
    [][\A p \in Addr :
         DestroyMaterial(p) =>
           IF HasInstances(p)
           THEN UNCHANGED vars
           ELSE p \in lists["mMaterials"] =>
                  /\ lists' = [lists EXCEPT !["mMaterials"] = @ \ {p}]
                  /\ heap'[p].terminated = heap[p].terminated + 1
                  /\ heap'[p].freed = heap[p].freed + 1
                  /\ mMaterialInstances' = mMaterialInstances
                  /\ ~aborted']_vars

\* a material was destroyed after its instance had been destroyed
C6_Witness ==
    \E p, q \in Addr :
        /\ heap[q].kind = MI /\ heap[q].material = p /\ heap[q].freed = 1
        /\ heap[p].kind = "mMaterials" /\ heap[p].freed = 1
        /\ p \in DOMAIN mMaterialInstances
        /\ pc = "idle"

\* C7: no resource is terminated or freed more than once, and destroy() of a
\* pointer that was already destroyed is a non-fatal no-op, for every kind.
C7_DoubleDestroyIsNoOp ==
    /\ [](\A a \in Addr : heap[a].terminated <= 1 /\ heap[a].freed <= 1)
    /\ [][\A p \in Addr :
            ( /\ heap[p].freed > 0
              /\ DestroyPlain(p) \/ DestroyMaterial(p) \/ DestroyMaterialInstance(p) )
            => UNCHANGED vars]_vars

\* the second destroy() of a material instance hit the assert
C7_Witness ==
    /\ mDriver = "driver"
    /\ pc = "idle" /\ aborted /\ "engine" \in sEngines
    /\ \E p \in Addr : heap[p].kind = MI /\ heap[p].freed = 1

\* C8: when shutdown() has completed, every resource list is empty and every
\* object that was allocated has been terminated and freed exactly once.
C8_ShutdownEmptiesEveryList ==
    pc = "d_clear" =>
        /\ \A l \in ListNames : lists[l] = {}
        /\ \A m \in DOMAIN mMaterialInstances : mMaterialInstances[m] = {}
        /\ \A a \in Addr :
              heap[a].kind # "none" => heap[a].terminated = 1 /\ heap[a].freed = 1

\* shutdown() has completed and a swap chain the client leaked is still registered
C8_Witness ==
    /\ mDriver = "driver"
    /\ pc = "d_clear" /\ mTerminated
    /\ \E p \in lists["mSwapChains"] : heap[p].freed = 0

\* C9: with threading, create() followed at once by destroy() comes to an end:
\* either create() failed and joined the driver thread, or destroy() returned
\* with the driver thread finished and the engine terminated.
C9_CreateDestroyTerminates ==
    threading =>
        <>( /\ driverPc = "done"
            /\ \/ pc = "failed"
               \/ pc = "destroyed" /\ mTerminated )

\* destroy() has returned after a successful create(), the driver thread joined
C9_Witness ==
    /\ threading
    /\ pc = "destroyed" /\ mTerminated /\ engineFreed
    /\ driverPc = "done" /\ driverTerminated = 1

\* C10: when the driver thread has seen the exit signal (an empty result of
\* waitForCommands), every batch flushed so far has been replayed, in flush
\* order, and none is left in the queue.
C10_DrainBeforeExit ==
    (mDriver = "driver" /\ driverPc \in {"terminate", "done"}) =>
        /\ executed = [i \in 1..flushCount |-> i]
        /\ mCommandBuffersToExecute = <<>>
        /\ buffers = <<>>

\* exit has been requested while the driver thread has yet to receive two batches
C10_Witness ==
    /\ mExitRequested
    /\ driverPc = "wait"
    /\ Len(mCommandBuffersToExecute) >= 2

\* C11: when gc() returns, each of the four component managers has had exactly
\* one child job, that job has completed, and the manager holds no component
\* of an entity that is not alive.
C11_GcJoinsAllSweeps ==
    gcPc = "returned" =>
        \A m \in Managers :
            /\ gcJobs[m] = [state |-> "done", swept |-> 1]
            /\ components[m] \subseteq mEntityManager

\* gc() has returned after sweeping away the transform component of a dead
\* entity while another entity is alive with its components
C11_Witness ==
    /\ gcPc = "returned"
    /\ \E e \in Entities : e \notin mEntityManager
    /\ \E e \in mEntityManager : e \in components["mTransformManager"]

\* C12: after any sequence of insert / remove / getListAndClear a ResourceList
\* holds exactly the set the operations imply, without duplicates; remove()
\* returned true exactly when the address was present; getListAndClear()
\* returned the elements present before the call and left the list empty.
C12_ResourceListIsSet ==
    /\ ListElements(rlItems) = rlModel
    /\ ListSize(rlItems) = Cardinality(rlModel)
    /\ ListEmpty(rlItems) <=> rlModel = {}
    /\ rlOps > 0 => rlRet.value = rlRet.expect
    /\ (rlOps > 0 /\ rlRet.op = "getListAndClear") =>
          ListEmpty(rlItems) /\ ListSize(rlItems) = 0

\* an absent address was removed from a list that holds two others
C12_Witness ==
    /\ rlOps > 0 /\ rlRet.op = "remove" /\ rlRet.value = FALSE
    /\ ListSize(rlItems) = 2

\* C13: with a driver thread, the client thread never calls a method of the
\* driver nor touches the driver object itself.
C13_DriverOnlyOnDriverThread ==
    threading => clientDriverCalls = {}

\* the client thread has flushed while the driver thread is running
C13_Witness ==
    /\ threading /\ mDriver = "driver"
    /\ pc = "idle" /\ flushCount >= 1
    /\ "purge" \in clientDriverCalls

\* C14: no material has been terminated or freed while one of its material
\* instances is still registered, in any state, shutdown() included.
C14_InstancesBeforeMaterial ==
    \A m \in DOMAIN mMaterialInstances :
        (heap[m].terminated > 0 \/ heap[m].freed > 0) => mMaterialInstances[m] = {}

\* shutdown() has swept mMaterials and freed a leaked material whose leaked
\* instance is still registered and alive
C14_Witness ==
    /\ mDriver = "driver"
    /\ pc = "shutdown" /\ ShutdownPlan[sdStep] = <<"cleanupInstances", "mMaterialInstances">>
    /\ \E m \in DOMAIN mMaterialInstances :
          /\ heap[m].freed = 1
          /\ \E i \in mMaterialInstances[m] : heap[i].freed = 0

\* C15: an engine is only ever destructed with its terminated flag set.
C15_DestructedOnlyTerminated ==
    engineFreed => mTerminated

\* the process has exited with the engine still registered: the engine was
\* destructed by the teardown of the registry without having been shut down
C15_Witness ==
    /\ pc = "exited" /\ mDriver = "driver"
    /\ engineFreed /\ ~mTerminated

\* C16: destroy() of a null pointer changes nothing; and whatever was
\* terminated or freed was first taken off its list, then terminated, then
\* freed, once each: its log is empty or terminate, free, both off the list.
C16_RemoveTerminateFree ==
    /\ [](\A a \in Addr :
            heap[a].log \in { <<>>, << <<"terminate", FALSE>>, <<"free", FALSE>> >> })
    /\ [][\A l \in Kinds : DestroyNull(l) => UNCHANGED vars]_vars

\* the client destroyed a registered object of a kind without dependents
C16_Witness ==
    /\ pc = "idle"
    /\ \E a \in ClientObjects :
          /\ heap[a].kind \notin {"mMaterials", MI}
          /\ heap[a].log = << <<"terminate", FALSE>>, <<"free", FALSE>> >>
          /\ a \notin lists[heap[a].kind]

\* C17: shutdown() ends with: every termination, then its one flush, then
\* requestExit(), then the join, then emancipate(), then mTerminated.  So every
\* step of shutdown() that terminates something comes before the flush, once
\* exit is requested nothing written is left unflushed; the job system is let go only after the driver thread is gone;
\* and with mTerminated set the driver thread has exited, having replayed
\* every batch, the one of shutdown included.
C17_ShutdownFinalOrder ==
    /\ [](mExitRequested => pending = NoPending)
    /\ [][(At("shutdown") /\ (heap' # heap \/ subsystems' # subsystems)) =>
            \E i \in (sdStep + 1)..Len(ShutdownPlan) : ShutdownPlan[i][1] = "flush"]_vars
    /\ []((InShutdown("setTerminated") \/ mTerminated) =>
            /\ mExitRequested
            /\ ~jobSystemAdopted
            /\ threading => driverPc = "done")
    /\ []((InShutdown("emancipate") /\ threading) => driverPc = "done")
    /\ [](mTerminated =>
            /\ flushCount >= 1
            /\ executed = [i \in 1..flushCount |-> i]
            /\ mCommandBuffersToExecute = <<>> /\ buffers = <<>>)
    /\ [][(At("shutdown") /\ flushCount' # flushCount) =>
            /\ InShutdown("flush")
            /\ sdStep' = sdStep + 1
            /\ ~mExitRequested
            /\ Cardinality({i \in 1..Len(ShutdownPlan) : ShutdownPlan[i][1] = "flush"}) = 1]_vars

\* shutdown() has set the flag after sweeping an object the client had left
\* behind, with the driver thread gone
C17_Witness ==
    /\ threading /\ mTerminated /\ pc = "d_clear"
    /\ driverPc = "done" /\ driverTerminated = 1
    /\ \E a \in ClientObjects : heap[a].terminated = 1 /\ heap[a].freed = 1
    /\ executed # <<>>

\* C18: with threading, create() gets past the barrier only after the driver
\* thread has made its one attempt to create the driver; the barrier is
\* released once, by the driver thread, after mDriver was written, whether a
\* driver was created or not; when none was, the driver thread ends without
\* waiting for commands, executing any or terminating a driver, and create()
\* returns failure only after joining it.
C18_StartupProtocol ==
    /\ []((threading /\ pc \notin {"start", "c_await"}) =>
            /\ mDriverBarrier = 0
            /\ driverPc \notin {"not_started", "create", "latch"})
    /\ []((threading /\ driverPc \notin {"not_started", "create", "latch"}) =>
            mDriverBarrier = 0)
    /\ [][mDriverBarrier' # mDriverBarrier =>
            /\ mDriverBarrier = 1 /\ mDriverBarrier' = 0
            /\ driverPc = "latch" /\ driverPc' # "latch"
            /\ mDriver' = mDriver]_vars
    /\ [][(threading /\ mDriver' # mDriver) =>
            driverPc = "create" /\ driverPc' = "latch"]_vars
    /\ [][driverPc' = "create" => driverPc \in {"not_started", "create"}]_vars
    /\ []((threading /\ mDriver = "null") =>
            /\ driverPc \in {"not_started", "create", "latch", "done"}
            /\ driverTerminated = 0
            /\ executed = <<>> /\ buffers = <<>>)
    /\ []((threading /\ pc = "failed") => (mDriver = "null" /\ driverPc = "done"))

\* create() has returned failure: no driver, barrier released, thread joined
C18_Witness ==
    /\ threading /\ pc = "failed"
    /\ mDriver = "null" /\ mDriverBarrier = 0 /\ driverPc = "done"
    /\ handle = "nullptr"

\* C19: when shutdown() has completed on an engine whose driver was created,
\* the driver's terminate() has been called exactly once, with or without
\* threading; and it is called after every flushed batch was executed and
\* before mTerminated is set.
C19_DriverTerminatedOnce ==
    /\ []((mTerminated /\ mDriver = "driver") => driverTerminated = 1)
    /\ [][driverTerminated' # driverTerminated =>
            /\ driverTerminated = 0 /\ driverTerminated' = 1
            /\ ~mTerminated
            /\ executed = [i \in 1..flushCount |-> i]
            /\ mCommandBuffersToExecute = <<>> /\ buffers = <<>>]_vars

\* without threading shutdown() has completed, the batch of its flush was
\* executed inline, and the driver was never terminated
C19_Witness ==
    /\ ~threading /\ mDriver = "driver"
    /\ mTerminated /\ pc = "d_clear"
    /\ flushCount >= 1 /\ Len(executed) = flushCount
    /\ driverTerminated = 0

\* C20: shutdown() works in stages: the post-processing manager, the DFG and
\* the four component managers (renderable, light, transform, camera) are all
\* terminated before the first of the engine's own resources is destroyed, and
\* all of these are destroyed before the first list is swept.
C20_ShutdownStages ==
    /\ (InShutdown("destroy") /\ Operand \in { Builtins[i][1] : i \in 1..Len(Builtins) }) =>
          ({"mPostProcessManager", "mDFG"} \cup Managers) \subseteq subsystems
    /\ (InShutdown("cleanup") \/ InShutdown("cleanupInstances")) =>
          \A i \in 1..Len(Builtins) :
              builtin[Builtins[i][1]] # NULL => heap[builtin[Builtins[i][1]]].freed > 0

\* shutdown() is about to destroy the first of the engine's own resources: the
\* other subsystems are terminated, the transform manager is not
C20_Witness ==
    /\ mDriver = "driver"
    /\ InShutdown("destroy") /\ Operand = "mFullScreenTriangleIb"
    /\ builtin[Operand] # NULL /\ heap[builtin[Operand]].freed = 0
    /\ subsystems \cap ({"mPostProcessManager", "mDFG"} \cup Managers)
          = {"mPostProcessManager", "mDFG", "mRenderableManager", "mLightManager", "mCameraManager"}

\* the number of ResourceLists address a is a member of
MemberCount(a) ==
    Cardinality({ l \in ListNames : a \in lists[l] })
      + Cardinality({ m \in DOMAIN mMaterialInstances : a \in mMaterialInstances[m] })

\* C21: an address is in at most one ResourceList; a create* puts the new
\* address into the list of its kind and nowhere else (a material instance
\* into the list of its material); a destroy takes its pointer out of the
\* list of its kind at most and leaves every other list as it was.
C21_OneListPerAddress ==
    /\ [](\A a \in Addr : MemberCount(a) <= 1)
    /\ [][\A l \in ReuseKinds : Create(l) =>
            /\ mMaterialInstances' = mMaterialInstances
            /\ \E p \in Addr : /\ MemberCount(p) = 0
                               /\ heap'[p].kind = l
                               /\ lists' = [lists EXCEPT ![l] = @ \cup {p}]]_vars
    /\ [][\A m \in Addr : CreateMaterialInstance(m) =>
            /\ lists' = lists
            /\ \E p \in Addr :
                  /\ MemberCount(p) = 0
                  /\ heap'[p].kind = MI /\ heap'[p].material = m
                  /\ DOMAIN mMaterialInstances' = DOMAIN mMaterialInstances \cup {m}
                  /\ \A k \in DOMAIN mMaterialInstances' :
                        mMaterialInstances'[k] =
                            (IF k \in DOMAIN mMaterialInstances THEN mMaterialInstances[k] ELSE {})
                              \cup (IF k = m THEN {p} ELSE {})]_vars
    /\ [][\A p \in Addr : DestroyPlain(p) =>
            /\ mMaterialInstances' = mMaterialInstances
            /\ lists' = [lists EXCEPT ![heap[p].kind] = @ \ {p}]]_vars
    /\ [][\A p \in Addr : DestroyMaterial(p) =>
            /\ mMaterialInstances' = mMaterialInstances
            /\ lists' = [lists EXCEPT !["mMaterials"] = @ \ {p}] \/ lists' = lists]_vars
    /\ [][\A p \in Addr : DestroyMaterialInstance(p) =>
            /\ lists' = lists
            /\ DOMAIN mMaterialInstances' = DOMAIN mMaterialInstances
            /\ \A k \in DOMAIN mMaterialInstances :
                  \/ mMaterialInstances'[k] = mMaterialInstances[k]
                  \/ /\ k = heap[p].material
                     /\ mMaterialInstances'[k] = mMaterialInstances[k] \ {p}]_vars
    /\ [][\A p \in Addr : \A l \in ReuseKinds : DestroyStale(p, l) =>
            lists' = lists /\ mMaterialInstances' = mMaterialInstances]_vars

\* a material instance lives below its material: make<T>() takes the lowest
\* free address, so the address of the instance was occupied when the material
\* was created, and has since been freed and handed out again
C21_Witness ==
    /\ pc = "idle"
    /\ \E p \in ClientObjects : \E m \in ClientObjects :
          /\ p < m
          /\ heap[m].kind = "mMaterials" /\ heap[m].freed = 0
          /\ heap[p].kind = MI /\ heap[p].material = m /\ heap[p].freed = 0
          /\ p \in mMaterialInstances[m]

\* C22: a sweep of a list by shutdown() leaves the list empty and terminates
\* and frees every member the list had exactly once, and touches no other
\* object, whatever destroy() calls on members of that list the terminate()
\* functions make while the sweep is under way.
C22_SweepOncePerItem ==
    [][(InShutdown("cleanup") /\ sdStep' # sdStep) =>
          /\ lists'[Operand] = {}
          /\ \A a \in Addr :
                IF a \in lists[Operand]
                THEN /\ heap[a].terminated = 0 /\ heap[a].freed = 0
                     /\ heap'[a].terminated = 1 /\ heap'[a].freed = 1
                ELSE /\ heap'[a].terminated = heap[a].terminated
                     /\ heap'[a].freed = heap[a].freed]_vars

\* two leaked textures have been swept: the terminate() of the first destroyed
\* the second before the sweep came to it, the terminate() of the second
\* destroyed the first after it was freed
C22_Witness ==
    /\ pc = "shutdown"
    /\ \E a \in ClientObjects : \E b \in ClientObjects :
          /\ a < b
          /\ heap[a].kind = "mTextures" /\ heap[b].kind = "mTextures"
          /\ heap[a].log = << <<"terminate", FALSE>>, <<"free", FALSE>>, <<"destroy", FALSE>> >>
          /\ heap[b].log = << <<"destroy", FALSE>>, <<"terminate", FALSE>>, <<"free", FALSE>> >>
          /\ heap[a].freed = 1 /\ heap[b].freed = 1

\* C23: without threading the public execute() first flushes what is pending
\* and then replays every published batch on the calling thread: when it
\* returns, every batch flushed so far has been executed, in order, and the
\* queue is empty.  With threading the call is a fatal precondition violation:
\* nothing is flushed and nothing executed.
C23_PublicExecute ==
    /\ [][(mDriver = "driver" /\ Engine_execute /\ ~threading) =>
            /\ pending' = NoPending
            /\ flushCount' = flushCount + 1
            /\ Len(mCommandBuffersToExecute') = Len(mCommandBuffersToExecute) + 1
            /\ executed' = executed
            /\ pc' = "execute"]_vars
    /\ [][(mDriver = "driver" /\ Engine_execute_run) =>
            /\ ~threading /\ driverPc = "not_started"
            /\ pending' = NoPending
            /\ mCommandBuffersToExecute' = <<>>
            /\ executed' = [i \in 1..flushCount |-> i]
            /\ pc' = "idle"]_vars
    /\ [][(Engine_execute /\ threading) =>
            /\ aborted'
            /\ UNCHANGED <<queueVars, executed, signaled, driverVars>>]_vars

\* without threading and with no fence ever created, two batches have been
\* executed and the client is back from the call: it was the public execute()
\* that flushed and replayed them
C23_Witness ==
    /\ ~threading /\ mDriver = "driver"
    /\ pc = "idle"
    /\ \A a \in Addr : heap[a].kind # "mFences"
    /\ flushCount = 2 /\ executed = <<1, 2>>
    /\ mCommandBuffersToExecute = <<>>
    /\ mFreeSpace = CONFIG_COMMAND_BUFFERS_SIZE

\* the threads whose call ran shutdown()
Winners == { t \in Threads : callers[t].ran }

\* What C24 says apart from the winner's handle: shutdown() runs at most once,
\* by exactly one caller, and once when a call on the registered engine has
\* returned and no call is under way; only the call that takes the engine changes the registry; a call
\* that does not run shutdown() leaves its caller's pointer as it was.
DestroyOnce ==
    /\ [](shutdowns <= 1 /\ Cardinality(Winners) = shutdowns)
    /\ []((/\ \A t \in Threads : callers[t].pc \in {"out", "returned"}
           /\ \E t \in Threads : /\ callers[t].pc = "returned"
                                 /\ callers[t].how # "null_arg"
                                 /\ callers[t].ran \/ callers[t].handle = "engine")
             => shutdowns = 1)
    /\ [](\A t \in Threads : callers[t].filamentEngine # "nullptr" =>
             /\ callers[t].pc \in {"d_unlock", "d_shutdown", "d_clear", "d_dtor"}
             /\ callers[t].how # "null_arg")
    /\ [][sEngines' # sEngines =>
            \/ pc' # pc
            \/ \E t \in Threads :
                  /\ callers[t].filamentEngine = "nullptr"
                  /\ callers'[t].filamentEngine = "engine"
                  /\ sEngines' = sEngines \ {"engine"}]_vars
    /\ [][\A t \in Threads :
            (callers[t].pc # "out" /\ callers'[t].handle # callers[t].handle) =>
                callers[t].ran]_vars

Ids(bufs) == [i \in 1..Len(bufs) |-> bufs[i].id]

\* C25: one execute() step returns false (the loop ends) exactly when
\* waitForCommands() returned nothing, and then nothing is executed or
\* released; otherwise it returns true (the loop goes on to the next wait) and
\* every returned descriptor with a begin is executed and
\* then released, once, in the order returned, its release coming after its
\* execution, and a descriptor without a begin is neither executed nor released.
C25_ExecuteStep ==
    /\ [][(driverPc = "wait" /\ driverPc' # "wait") =>
            /\ (driverPc' = "terminate") <=> (buffers' = <<>>)
            /\ driverPc' = "terminate" \/ driverPc' = "exec"
            /\ UNCHANGED <<executed, released>>]_vars
    /\ [][(driverPc \in {"terminate", "done"}) => UNCHANGED <<executed, released>>]_vars
    /\ [][(driverPc \in {"exec", "release"}) => driverPc' \in {"exec", "release", "wait"}]_vars
    /\ [](driverPc \in {"wait", "terminate", "done"} =>
            /\ executed = Ids(WithBegin(returned))
            /\ released = executed)
    /\ [](driverPc \in {"exec", "release"} =>
            /\ \E k \in 0..Len(WithBegin(returned)) :
                  executed = SubSeq(Ids(WithBegin(returned)), 1, k)
            /\ released = SubSeq(executed, 1, Len(executed) - (IF driverPc = "release" THEN 1 ELSE 0))
            /\ Ids(buffers) = SubSeq(Ids(returned), Len(returned) - Len(buffers) + 1, Len(returned)))

\* a step on three descriptors, the middle one without a begin, has ended:
\* the first and the third were executed and released, the second was not
C25_Witness ==
    /\ driverPc = "wait"
    /\ Len(returned) = 3
    /\ HasBegin(returned[1]) /\ ~HasBegin(returned[2]) /\ HasBegin(returned[3])
    /\ executed = <<1, 3>> /\ released = <<1, 3>>
    /\ buffers = <<>>

====
